---- MODULE Spec2Model ----
(***************************************************************************)
(* Model of the WebSocket transcription gateway (wsTranscribe.ts and the   *)
(* services it calls): the session registry, the per-user queues with      *)
(* their SoftLock, the dispatcher scan (queueRunner / processQueue), the   *)
(* transcription task (processTranscribe / transcribeForUser), the usage   *)
(* store and shutdown.                                                     *)
(*                                                                         *)
(* Every action is one run-to-completion piece of the Node event loop: a   *)
(* socket event handler, a timer callback together with the promise        *)
(* continuations it releases, or one dispatcher scan.                      *)
(***************************************************************************)
EXTENDS Integers, Sequences, FiniteSets, TLC

----------------------------------------------------------------------------
(* Bounds of the model *)

\* calls on a Queue: dequeue, peek and clear come in every order up to
\* QueueMixed enqueues, and at most QueueMaxEnqueue items are enqueued
QueueMixed == 4
QueueMaxEnqueue == 1026

\* sockets and frames in a behaviour of SpecLock
LockSockets == 2
LockMaxFrames == 3

\* sockets the clients open in a behaviour of Spec
MaxSockets == 2
\* sockets the one user of SpecOne opens
OneSockets == 3
\* frames that get enqueued, over all users, in a behaviour of Spec
MaxFrames == 2
\* connections (and frames) of SpecCap after its first CapSender sockets
CapSockets == 6
\* sockets the client of SpecCap opens up to the one it sends its frames on
CapSender == 2
\* the sockets and the frames of SpecUsage
UsageSockets == 2
UsageMaxFrames == 3
\* the sockets and the frames of SpecCodec
CodecSockets == 1
CodecMaxFrames == 2

----------------------------------------------------------------------------
(* Program constants *)

\* WsCloseCode
Normal == 1000
GoingAway == 1001
\* WsCloseCode.InvalidData
WsInvalidData == 1007
PolicyViolation == 1008
UnexpectedError == 1011
Timeout == 3008
\* InternalErrorCode
ExceededAllocatedUsageError == 0
TimeoutError == 1
AbortedError == 2
ConnectionReplacedError == 3
Unauthorized == 4
ShuttingDown == 5
NotReady == 6
InvalidData == 7
ServerError == 99

BYTES_PER_WORD == 16000
MS_PER_WORD == 250
STARTING_USAGE_LIMIT_MS == 1000
\* queueRunner(5, mainAbortSignal)
MAX_CONCURRENT == 5
\* the 4-byte big-endian sequence id in front of the payload
ID_BYTES == 4

\* AUTH_TOKEN: a -> '1', b -> '2'
Users == {1, 2}
\* clientSocket.user = null
NoUser == 0
\* USER_ID_SOCKET_MAP[userId] === undefined
NoSocket == 0
\* the close was started by the peer (its close frame, or the connection
\* dropping): there is no server reason
PeerReason == 0 - 1
\* usageService.getUsage has not returned yet
NotRead == 0 - 1

SockIds == 1 .. (MaxSockets + OneSockets + CapSockets + UsageSockets + CodecSockets)

\* total frame length the clients of Spec send: two words of audio, so that
\* two frames use up the starting budget exactly
FrameLens == {ID_BYTES + 2 * BYTES_PER_WORD}

VARIABLES
    socks,                \* the WebSocket objects: readyState, user, ready, ...
    nSocks,               \* sockets created so far
    USER_ID_SOCKET_MAP,   \* userId -> registered socket
    USER_ID_QUEUE_MAP,    \* userId -> SoftLock(Queue)
    tasks,                \* processTranscribe calls that have not returned
    MEMORY_STORAGE,       \* userId -> UsageData
    mainAborted,          \* abortController.signal.aborted of setupWebSocket
    setSize,              \* set.size in queueRunner
    enqCount,             \* frames enqueued per user (the sequence ids used)
    lastReplied,          \* id of the last reply sent to each user
    repliedMs,            \* sum of usageUsedMs over the replies sent to each user
    lateFrame,            \* a frame was written to a socket after its close frame
    timers,               \* the pending delay(50) timers, in the order they were set
    runnerReturned,       \* queueRunner has returned
    shutdownReturned,     \* the promise of createServer's shutdown() has resolved
    timeoutUnit,          \* one call of timeout(ms, fn, opt) of util/timeout
    queueUnit,            \* the two Queues of util/queue under the same calls
    abortUnit             \* onAbort and rejectOnAbort of util/abort on a signal

vars == <<socks, nSocks, USER_ID_SOCKET_MAP, USER_ID_QUEUE_MAP, tasks,
          MEMORY_STORAGE, mainAborted, setSize, enqCount, lastReplied,
          repliedMs, lateFrame, timers, runnerReturned, shutdownReturned,
          timeoutUnit, queueUnit, abortUnit>>

\* the state of the server
serverVars == <<socks, nSocks, USER_ID_SOCKET_MAP, USER_ID_QUEUE_MAP, tasks,
                MEMORY_STORAGE, mainAborted, setSize, enqCount, lastReplied,
                repliedMs, lateFrame, timers, runnerReturned,
                shutdownReturned>>

\* the objects of src/util that are exercised on their own
unitVars == <<timeoutUnit, queueUnit, abortUnit>>

----------------------------------------------------------------------------
(* Pure helpers *)

CeilDiv(a, b) == (a + b - 1) \div b

Max(a, b) == IF a >= b THEN a ELSE b

\* a word count that rounds down
fakeSpeechWordCountFloor(len) == len \div BYTES_PER_WORD

\* Math.ceil(audioPacket.length / BYTES_PER_WORD)
fakeSpeechWordCount(len) == CeilDiv(len, BYTES_PER_WORD)

\* Math.ceil(wordCount * MS_PER_WORD)
fakeProcessTime(wordCount) == wordCount * MS_PER_WORD

estimateUsageMs(len) == fakeProcessTime(fakeSpeechWordCount(len))

\* getIdFromBuffer: the payload is buffer.subarray(4)
dataLength(frameLen) == Max(frameLen - ID_BYTES, 0)

\* A Buffer: the bytes written out, followed by `rest` bytes of audio, which
\* are zero as in Buffer.alloc(n)
audio(n) == [bytes |-> <<>>, rest |-> n]

bufferLength(buffer) == Len(buffer.bytes) + buffer.rest

byteAt(buffer, i) ==
    IF i <= Len(buffer.bytes) THEN buffer.bytes[i] ELSE 0

\* buffer.subarray(start)
subarray(buffer, start) ==
    IF start <= Len(buffer.bytes)
    THEN [bytes |-> SubSeq(buffer.bytes, start + 1, Len(buffer.bytes)),
          rest |-> buffer.rest]
    ELSE [bytes |-> <<>>,
          rest |-> Max(buffer.rest - (start - Len(buffer.bytes)), 0)]

\* idBuffer.writeUInt32BE(id) on Buffer.alloc(4)
writeUInt32BE(id) ==
    <<(id \div 16777216) % 256, (id \div 65536) % 256,
      (id \div 256) % 256, id % 256>>

\* a read of the two lowest bytes only
readUInt16BE(buffer) ==
    byteAt(buffer, 3) * 256 + byteAt(buffer, 4)

\* buffer.readUInt32BE(0)
readUInt32BE(buffer) ==
    byteAt(buffer, 1) * 16777216 + byteAt(buffer, 2) * 65536
    + byteAt(buffer, 3) * 256 + byteAt(buffer, 4)

\* Buffer.concat([idBuffer, buffer])
insertIdIntoBuffer(id, buffer) ==
    [bytes |-> writeUInt32BE(id) \o buffer.bytes, rest |-> buffer.rest]

getIdFromBuffer(buffer) ==
    [id |-> readUInt32BE(buffer), data |-> subarray(buffer, ID_BYTES)]

\* new QueueEntry(buffer) throws: readUInt32BE(0) a RangeError on a buffer
\* of less than 4 bytes, the constructor InvalidData on an empty payload
queueEntryThrows(buffer) ==
    \/ bufferLength(buffer) < ID_BYTES
    \/ bufferLength(getIdFromBuffer(buffer).data) = 0

createUsage(remaining) == [remainingMs |-> remaining, totalUsedMs |-> 0]

\* MEMORY_STORAGE.get(userId) ?? createUsage(0)
_getUsage(storage, userId) ==
    IF userId \in DOMAIN storage THEN storage[userId] ELSE createUsage(0)

\* a socket that has not been opened yet
NoSock == [user |-> NoUser, readyState |-> "NONE", ready |-> FALSE,
           admRead |-> NotRead, closeCode |-> 0, closeReason |-> PeerReason,
           readySent |-> FALSE]

\* delete USER_ID_QUEUE_MAP[userId]
NoQueue == [present |-> FALSE, locked |-> FALSE, items |-> <<>>]

\* new SoftLock(new Queue())
NewQueue == [present |-> TRUE, locked |-> FALSE, items |-> <<>>]

isOpen(sk) == sk.readyState = "OPEN"

\* the close frame of the socket was sent or received
closeFrameSeen(sk) == sk.closeCode # 0

\* WebSocket.close(code, reason) of the ws library, as closeWithError calls
\* it: only an OPEN socket sends a close frame and becomes CLOSING
closeWithError(sk, code, reason) ==
    IF sk.readyState = "OPEN"
    THEN [sk EXCEPT !.readyState = "CLOSING", !.closeCode = code,
                    !.closeReason = reason]
    ELSE sk

\* a sendData without its guard: it writes to the socket in any state
sendDataUnguarded(sk) == TRUE

\* the guard of sendData: it throws 'Socket not open' unless the socket is OPEN
sendDataAllowed(sk) == sk.readyState = "OPEN"

\* delay(50) in usageService.getUsage and usageService.updateUsage: the
\* timers of one duration are kept by Node in one list, in the order they
\* were set, and run from its head. The timer of an admission is named by
\* its socket, the timer of a task by its user and the id of its frame.
admissionTimer(s) == [kind |-> "admission", a |-> s, b |-> 0]

taskTimer(userId, id) == [kind |-> "task", a |-> userId, b |-> id]

\* timers that run in any order
timerPending(tm, x) == \E k \in DOMAIN tm : tm[k] = x

\* the timer is the next of the list to run
timerDue(tm, x) == tm # <<>> /\ Head(tm) = x

\* the list without the timer that ran
timerRan(tm, x) == SelectSeq(tm, LAMBDA y : y # x)

----------------------------------------------------------------------------
(* util/timeout: timeout(ms, fn, opt), with the promise jobs it queues *)

\* an Error object: its class and its message
Err(class, message) == [class |-> class, message |-> message]
NoErr == Err("none", "")

\* what fn does with the signal it is given: "resolved" has settled when it
\* returns, "pending" settles on an event of its own and ignores the signal,
\* "abortAware" rejects from an 'abort' listener on the signal
FnKinds == {"resolved", "pending", "abortAware"}

\* opt.abortController: not supplied, supplied, supplied and aborted
Controllers == {"none", "fresh", "aborted"}

\* opt.allowAlreadyAborted
AllowOpts == {"unset", "true", "false"}

\* the state before timeout() is called with these arguments
timeoutArgs(fnKind, controller, allow) ==
    [fnKind |-> fnKind, controller |-> controller, allow |-> allow,
     called |-> FALSE,
     aborted |-> controller = "aborted",   \* abortController.signal.aborted
     timer |-> "none",                     \* timeout.timeout
     wasTimeout |-> FALSE,
     listeners |-> <<>>,                   \* the signal's 'abort' listeners
     p1 |-> "none",                        \* the promise fn returned
     roa |-> "none",                       \* rejectOnAbortObj.promise
     error |-> NoErr,                      \* what the catch handler rejects with
     race |-> "none",                      \* the promise timeout() returns
     raceError |-> NoErr,
     thrown |-> NoErr,                     \* what timeout() threw
     jobs |-> <<>>,                        \* the promise job queue
     first |-> "none"]                     \* the event that happened first

TimeoutArgs ==
    {timeoutArgs(k, c, a) : k \in FnKinds, c \in Controllers, a \in AllowOpts}

\* no call of timeout() under way
NoTimeoutCall == timeoutArgs("resolved", "none", "unset")

\* the listener of an 'abort' event; all of them are registered {once: true}
abortListener(c, l) ==
    IF l = "clearTimeout"
    THEN [c EXCEPT !.timer = IF @ = "set" THEN "cleared" ELSE @]
    ELSE IF l = "rejectOnAbort"
    THEN [c EXCEPT !.roa = "rejected", !.jobs = Append(@, "catch")]
    ELSE [c EXCEPT !.p1 = "rejected", !.jobs = Append(@, "raceFn")]

RECURSIVE dispatchAbort(_, _)
dispatchAbort(c, ls) ==
    IF ls = <<>> THEN c
    ELSE dispatchAbort(abortListener(c, Head(ls)), Tail(ls))

\* abortController.abort(): nothing on a signal that is aborted already
abortSignal(c) ==
    IF c.aborted THEN c
    ELSE dispatchAbort([c EXCEPT !.aborted = TRUE, !.listeners = <<>>],
                       c.listeners)

\* the rejection of the catch handler on rejectOnAbortObj.promise
catchError(wasTimeout) ==
    IF wasTimeout THEN Err("TimeoutError", "timeout")
    ELSE Err("AbortedError", "aborted")

\* one promise job
runJob(c, j) ==
    IF j = "deadline"          \* timeout.promise.then(...)
    THEN abortSignal([c EXCEPT !.wasTimeout = TRUE])
    ELSE IF j = "catch"        \* the handler returns Promise.reject(error)
    THEN [c EXCEPT !.error = catchError(c.wasTimeout),
                   !.jobs = Append(@, "resolveThenable")]
    ELSE IF j = "resolveThenable"   \* then() of the returned promise
    THEN [c EXCEPT !.jobs = Append(@, "rejectDerived")]
    ELSE IF j = "rejectDerived"     \* the promise of catch() is rejected
    THEN [c EXCEPT !.jobs = Append(@, "raceAbort")]
    ELSE IF j = "raceAbort"    \* Promise.race's reaction to the second entry
    THEN IF c.race # "pending" THEN c
         ELSE [c EXCEPT !.race = "rejected", !.raceError = c.error,
                        !.jobs = Append(@, "finally")]
    ELSE IF j = "raceFn"       \* Promise.race's reaction to fn's promise
    THEN IF c.race # "pending" THEN c
         ELSE [c EXCEPT !.race = c.p1,
                        !.raceError = IF c.p1 = "rejected"
                                      THEN Err("FnError", "fn") ELSE NoErr,
                        !.jobs = Append(@, "finally")]
    ELSE \* finally: cleanup?.() and rejectOnAbortObj.cancel()
         [c EXCEPT !.listeners = SelectSeq(@, LAMBDA l : l = "fn")]

\* the promise jobs run until the queue is empty
RECURSIVE drain(_)
drain(c) ==
    IF c.jobs = <<>> THEN c
    ELSE drain(runJob([c EXCEPT !.jobs = Tail(@)], Head(c.jobs)))

\* timeout(ms, fn, opt) up to its return
timeout(c) ==
    LET t == [c EXCEPT !.called = TRUE, !.timer = "set"] IN
    IF c.aborted
    THEN IF c.allow # "false"
         THEN [t EXCEPT !.race = "rejected",
                        !.raceError = Err("AbortedError", "aborted"),
                        !.first = "alreadyAborted"]
         ELSE [t EXCEPT !.thrown = Err("AbortedError", "already aborted"),
                        !.first = "alreadyAborted"]
    ELSE LET r == [t EXCEPT !.listeners = <<"clearTimeout", "rejectOnAbort">>,
                            !.roa = "pending", !.race = "pending"] IN
         IF c.fnKind = "resolved"
         THEN [r EXCEPT !.p1 = "fulfilled", !.jobs = Append(@, "raceFn"),
                        !.first = "fn"]
         ELSE IF c.fnKind = "abortAware"
         THEN [r EXCEPT !.p1 = "pending", !.listeners = Append(@, "fn")]
         ELSE [r EXCEPT !.p1 = "pending"]

\* timeout() is called and the promise jobs of that turn run
TimeoutCall ==
    /\ ~timeoutUnit.called
    /\ timeoutUnit' = drain(timeout(timeoutUnit))
    /\ UNCHANGED <<serverVars, queueUnit, abortUnit>>

\* the timer of delayExposeTimeout(ms) fires
DeadlineFires ==
    /\ timeoutUnit.timer = "set"
    /\ timeoutUnit' =
         LET c == [timeoutUnit EXCEPT
                     !.timer = "fired",
                     !.first = IF @ = "none" THEN "deadline" ELSE @] IN
         IF c.first = "alreadyAborted"
         THEN c     \* no then() was registered on timeout.promise
         ELSE drain([c EXCEPT !.jobs = Append(@, "deadline")])
    /\ UNCHANGED <<serverVars, queueUnit, abortUnit>>

\* the caller aborts the controller it supplied
CallerAborts ==
    /\ timeoutUnit.called
    /\ timeoutUnit.controller = "fresh"
    /\ ~timeoutUnit.aborted
    /\ timeoutUnit' =
         drain(abortSignal([timeoutUnit EXCEPT
                              !.first = IF @ = "none" THEN "abort" ELSE @]))
    /\ UNCHANGED <<serverVars, queueUnit, abortUnit>>

\* fn's promise settles on fn's own event
FnSettles(state) ==
    /\ timeoutUnit.fnKind = "pending"
    /\ timeoutUnit.p1 = "pending"
    /\ timeoutUnit' =
         drain([timeoutUnit EXCEPT
                  !.p1 = state, !.jobs = Append(@, "raceFn"),
                  !.first = IF @ = "none" THEN "fn" ELSE @])
    /\ UNCHANGED <<serverVars, queueUnit, abortUnit>>

----------------------------------------------------------------------------
(* util/queue: the Queue on a PingPongBuffer and the Queue on an array *)

\* the value of an empty array slot, and of a call that returns nothing
undefined == 0

\* capacity of a PingPongBuffer when none is given
DefaultCapacity == 1024

\* new PingPongBuffer(capacity); each array is held up to its last written
\* slot, and _writeBuffer is _bufferA exactly when writeIsA
PingPongBuffer(capacity) ==
    [_bufferA |-> <<>>, _bufferB |-> <<>>, writeIsA |-> TRUE,
     _writeSize |-> 0, _readSize |-> 0, length |-> capacity]

\* array[index] = value
arraySet(array, index, value) ==
    IF index < Len(array) THEN [array EXCEPT ![index + 1] = value]
    ELSE Append(array, value)

\* array.slice(from, to)
slice(array, from, to) == SubSeq(array, from + 1, to)

_writeBuffer(b) == IF b.writeIsA THEN b._bufferA ELSE b._bufferB
_readBuffer(b) == IF b.writeIsA THEN b._bufferB ELSE b._bufferA

\* PingPongBuffer.write throws
writeThrows(b) == b._writeSize >= b.length

\* PingPongBuffer.write when it does not throw
PingPongBuffer_write(b, value) ==
    IF b.writeIsA
    THEN [b EXCEPT !._bufferA = arraySet(@, b._writeSize, value),
                   !._writeSize = @ + 1]
    ELSE [b EXCEPT !._bufferB = arraySet(@, b._writeSize, value),
                   !._writeSize = @ + 1]

\* PingPongBuffer.read
PingPongBuffer_read(b, index) ==
    IF index >= b._readSize THEN undefined ELSE _readBuffer(b)[index + 1]

\* PingPongBuffer.size
PingPongBuffer_size(b) == b._readSize + b._writeSize

\* PingPongBuffer.swap
PingPongBuffer_swap(b) ==
    [b EXCEPT !.writeIsA = ~@, !._readSize = b._writeSize, !._writeSize = 0]

\* PingPongBuffer.clear
PingPongBuffer_clear(b) == [b EXCEPT !._writeSize = 0, !._readSize = 0]

\* PingPongBuffer.getWriteSlice
getWriteSlice(b) == slice(_writeBuffer(b), 0, b._writeSize)

\* PingPongBuffer.getReadSlice
getReadSlice(b, fromIndex) == slice(_readBuffer(b), fromIndex, b._readSize)

\* new Queue() on a PingPongBuffer
PingPongQueue ==
    [buffer |-> PingPongBuffer(DefaultCapacity), readIndex |-> 0,
     hasWritten |-> FALSE]

\* Queue.enqueue when the buffer does not throw
Queue_enqueue(q, item) ==
    [q EXCEPT !.buffer = PingPongBuffer_write(@, item),
              !.hasWritten = TRUE]

\* Queue.flush
Queue_flush(q) ==
    IF ~q.hasWritten THEN q
    ELSE IF q.readIndex < q.buffer._readSize THEN q
    ELSE [q EXCEPT !.hasWritten = FALSE,
                   !.buffer = PingPongBuffer_swap(@),
                   !.readIndex = 0]

\* Queue.dequeue: the queue after the call, and what the call returns
Queue_dequeue(q) ==
    LET f == Queue_flush(q) IN
    IF f.readIndex >= f.buffer._readSize THEN <<f, undefined>>
    ELSE <<[f EXCEPT !.readIndex = @ + 1],
           PingPongBuffer_read(f.buffer, f.readIndex)>>

\* Queue.peek: the queue after the call, and what the call returns
Queue_peek(q) ==
    LET f == Queue_flush(q) IN
    <<f, PingPongBuffer_read(f.buffer, f.readIndex)>>

\* Queue.isEmpty
Queue_isEmpty(q) == q.readIndex >= PingPongBuffer_size(q.buffer)

\* Queue.size
Queue_size(q) == PingPongBuffer_size(q.buffer) - q.readIndex

\* Queue.clear
Queue_clear(q) == [q EXCEPT !.buffer = PingPongBuffer_clear(@), !.readIndex = 0]

\* Queue.toArray
Queue_toArray(q) ==
    getReadSlice(q.buffer, q.readIndex)
      \o (IF q.hasWritten THEN getWriteSlice(q.buffer) ELSE <<>>)

\* the Queue on an array: enqueue, dequeue (the items after the call, and
\* what the call returns), peek, isEmpty, size, clear, toArray
ArrayQueue == <<>>
ArrayQueue_enqueue(items, item) == Append(items, item)
ArrayQueue_dequeue(items) ==
    IF items = <<>> THEN <<items, undefined>>
    ELSE <<Tail(items), Head(items)>>
ArrayQueue_peek(items) == IF items = <<>> THEN undefined ELSE items[1]
ArrayQueue_isEmpty(items) == Len(items) = 0
ArrayQueue_size(items) == Len(items)
ArrayQueue_clear(items) == <<>>
ArrayQueue_toArray(items) == items

\* both queues before their first call; the k-th item enqueued is k
NewQueues ==
    [pp |-> PingPongQueue, items |-> ArrayQueue,
     enqueued |-> 0,               \* the number of enqueue calls
     fifo |-> <<>>,                \* the items not yet dequeued, oldest first
     call |-> "none",              \* the last call
     ret |-> <<undefined, undefined>>,  \* what it returned, from either Queue
     threw |-> FALSE]              \* the call on the PingPongBuffer threw

\* enqueue(item) on both queues
QueueEnqueue ==
    /\ queueUnit.enqueued < QueueMaxEnqueue
    /\ queueUnit' =
         LET item == queueUnit.enqueued + 1
             overflow == writeThrows(queueUnit.pp.buffer) IN
         [queueUnit EXCEPT
            !.pp = IF overflow THEN @ ELSE Queue_enqueue(@, item),
            !.items = ArrayQueue_enqueue(@, item),
            !.enqueued = item,
            !.fifo = Append(@, item),
            !.call = "enqueue",
            !.ret = <<undefined, undefined>>,
            !.threw = overflow]
    /\ UNCHANGED <<serverVars, timeoutUnit, abortUnit>>

\* dequeue() on both queues
QueueDequeue ==
    /\ queueUnit.enqueued <= QueueMixed
    /\ queueUnit' =
         LET p == Queue_dequeue(queueUnit.pp)
             a == ArrayQueue_dequeue(queueUnit.items) IN
         [queueUnit EXCEPT
            !.pp = p[1], !.items = a[1],
            !.fifo = IF @ = <<>> THEN @ ELSE Tail(@),
            !.call = "dequeue", !.ret = <<p[2], a[2]>>, !.threw = FALSE]
    /\ UNCHANGED <<serverVars, timeoutUnit, abortUnit>>

\* peek() on both queues
QueuePeek ==
    /\ queueUnit.enqueued <= QueueMixed
    /\ queueUnit' =
         LET p == Queue_peek(queueUnit.pp) IN
         [queueUnit EXCEPT
            !.pp = p[1],
            !.call = "peek",
            !.ret = <<p[2], ArrayQueue_peek(queueUnit.items)>>,
            !.threw = FALSE]
    /\ UNCHANGED <<serverVars, timeoutUnit, abortUnit>>

\* clear() on both queues
QueueClear ==
    /\ queueUnit.enqueued <= QueueMixed
    /\ queueUnit' =
         [queueUnit EXCEPT
            !.pp = Queue_clear(@), !.items = ArrayQueue_clear(@),
            !.fifo = <<>>,
            !.call = "clear", !.ret = <<undefined, undefined>>,
            !.threw = FALSE]
    /\ UNCHANGED <<serverVars, timeoutUnit, abortUnit>>

----------------------------------------------------------------------------
(* util/abort: onAbort and rejectOnAbort on one AbortSignal *)

\* the state before either helper is called: the signal, the arguments the
\* helpers will be given, and what they have done
abortArgs(aborted, allowOnAbort, allowReject, resolveOnCancel) ==
    [aborted |-> aborted,              \* abortSignal.aborted
     allowOnAbort |-> allowOnAbort,    \* allowAlreadyAborted of onAbort
     allowReject |-> allowReject,      \* allowAlreadyAborted of rejectOnAbort
     resolveOnCancel |-> resolveOnCancel,
     listeners |-> {},                 \* the signal's 'abort' listeners
     onAbortState |-> "none",          \* "returned" or "threw" after the call
     onAbortThrown |-> NoErr,
     hasCleanup |-> FALSE,             \* onAbort returned a function
     cleaned |-> FALSE,                \* that function was called
     calls |-> 0,                      \* invocations of the callback
     rejectState |-> "none",           \* "returned" or "threw" after the call
     rejectThrown |-> NoErr,
     promise |-> "none",               \* the promise of rejectOnAbort
     promiseError |-> NoErr,
     cancelled |-> FALSE]              \* cancel() was called

AbortArgs ==
    {abortArgs(a, o, r, c) : a \in BOOLEAN, o \in BOOLEAN, r \in BOOLEAN,
                             c \in BOOLEAN}

\* neither helper in use
NoAbortHelpers == abortArgs(FALSE, TRUE, TRUE, FALSE)

\* abortSignal.removeEventListener('abort', l) that leaves the listener
keepEventListener(listeners, l) == listeners

\* abortSignal.removeEventListener('abort', l)
removeEventListener(listeners, l) == listeners \ {l}

\* a promise is settled at most once
settle(u, state, error) ==
    IF u.promise # "pending" THEN u
    ELSE [u EXCEPT !.promise = state, !.promiseError = error]

\* onAbort(abortSignal, callback, allowAlreadyAborted)
onAbort(u) ==
    IF u.aborted
    THEN IF u.allowOnAbort
         THEN [u EXCEPT !.calls = @ + 1, !.onAbortState = "returned"]
         ELSE [u EXCEPT !.onAbortState = "threw",
                        !.onAbortThrown =
                            Err("AbortedError", "already aborted")]
    ELSE [u EXCEPT !.listeners = @ \cup {"callback"},
                   !.onAbortState = "returned", !.hasCleanup = TRUE]

\* the function onAbort returns
cleanup(u) ==
    [u EXCEPT !.listeners = removeEventListener(@, "callback"),
              !.cleaned = TRUE]

\* rejectOnAbort(abortSignal, allowAlreadyAborted, resolveOnCancel)
rejectOnAbort(u) ==
    IF u.aborted
    THEN IF u.allowReject
         THEN [u EXCEPT !.rejectState = "returned", !.promise = "rejected",
                        !.promiseError =
                            Err("AbortedError", "already aborted")]
         ELSE [u EXCEPT !.rejectState = "threw",
                        !.rejectThrown =
                            Err("AbortedError", "already aborted")]
    ELSE [u EXCEPT !.rejectState = "returned", !.promise = "pending",
                   !.listeners = @ \cup {"handler"}]

\* cancel() of the object rejectOnAbort returns
cancel(u) ==
    IF u.promise = "rejected" /\ u.promiseError.message = "already aborted"
    THEN [u EXCEPT !.cancelled = TRUE]        \* cancel: () => {}
    ELSE [(IF u.resolveOnCancel THEN settle(u, "resolved", NoErr) ELSE u)
            EXCEPT !.listeners = removeEventListener(@, "handler"),
                   !.cancelled = TRUE]

\* the 'abort' event: every listener runs once and is removed
abortEvent(u) ==
    LET c == IF "callback" \in u.listeners
             THEN [u EXCEPT !.calls = @ + 1] ELSE u
        h == IF "handler" \in u.listeners
             THEN settle(c, "rejected", Err("AbortedError", "aborted"))
             ELSE c IN
    [h EXCEPT !.aborted = TRUE, !.listeners = {}]

\* onAbort is called
OnAbortCall ==
    /\ abortUnit.onAbortState = "none"
    /\ abortUnit' = onAbort(abortUnit)
    /\ UNCHANGED <<serverVars, timeoutUnit, queueUnit>>

\* the cleanup function of onAbort is called
OnAbortCleanup ==
    /\ abortUnit.hasCleanup
    /\ abortUnit' = cleanup(abortUnit)
    /\ UNCHANGED <<serverVars, timeoutUnit, queueUnit>>

\* rejectOnAbort is called
RejectOnAbortCall ==
    /\ abortUnit.rejectState = "none"
    /\ abortUnit' = rejectOnAbort(abortUnit)
    /\ UNCHANGED <<serverVars, timeoutUnit, queueUnit>>

\* cancel() of rejectOnAbort's object is called
RejectOnAbortCancel ==
    /\ abortUnit.rejectState = "returned"
    /\ abortUnit' = cancel(abortUnit)
    /\ UNCHANGED <<serverVars, timeoutUnit, queueUnit>>

\* abortController.abort()
SignalAborts ==
    /\ ~abortUnit.aborted
    /\ abortUnit' = abortEvent(abortUnit)
    /\ UNCHANGED <<serverVars, timeoutUnit, queueUnit>>

----------------------------------------------------------------------------
Init ==
    /\ timeoutUnit = NoTimeoutCall
    /\ queueUnit = NewQueues
    /\ abortUnit = NoAbortHelpers
    /\ socks = [s \in SockIds |-> NoSock]
    /\ nSocks = 0
    /\ USER_ID_SOCKET_MAP = [u \in Users |-> NoSocket]
    /\ USER_ID_QUEUE_MAP = [u \in Users |-> NoQueue]
    /\ tasks = {}
    /\ MEMORY_STORAGE = [u \in Users |-> createUsage(STARTING_USAGE_LIMIT_MS)]
    /\ mainAborted = FALSE
    /\ setSize = 0
    /\ enqCount = [u \in Users |-> 0]
    /\ lastReplied = [u \in Users |-> 0]
    /\ repliedMs = [u \in Users |-> 0]
    /\ lateFrame = FALSE
    /\ timers = <<>>
    /\ runnerReturned = FALSE
    /\ shutdownReturned = FALSE

----------------------------------------------------------------------------
(* authenticateClient *)

\* req.headers.authorization, as the words between its blanks
\* (auth.split(' ')); <<>> is the header that is missing
Headers ==
    {<<>>, <<"Bearer">>, <<"Bearer", "">>, <<"Bearer", "x">>,
     <<"Basic", "a">>, <<"bearer", "a">>, <<"Bearer", "a">>,
     <<"Bearer", "b">>, <<"Bearer", "a", "b">>}

\* AUTH_TOKEN
AUTH_TOKEN == [token \in {"a", "b"} |-> IF token = "a" THEN 1 ELSE 2]

\* null is <<>>, a token is <<token>>
getTokenFromAuthorization(auth) ==
    IF auth = <<>> \/ ~(Len(auth) >= 2 /\ auth[1] = "Bearer")
    THEN <<>>
    ELSE <<auth[2]>>

\* a lookup that falls back to the first user
getUserIdFromTokenOrFirst(token) ==
    IF token \in DOMAIN AUTH_TOKEN THEN AUTH_TOKEN[token] ELSE 1

\* AUTH_TOKEN.get(token) ?? null
getUserIdFromToken(token) ==
    IF token \in DOMAIN AUTH_TOKEN THEN AUTH_TOKEN[token] ELSE NoUser

authenticateClient(auth) ==
    LET token == getTokenFromAuthorization(auth)
    IN  IF token = <<>> \/ token[1] = ""
        THEN NoUser
        ELSE getUserIdFromToken(token[1])

\* authMiddleware: the user put on the request, NoUser when it answers 401
authMiddleware(auth) ==
    LET token == getTokenFromAuthorization(auth)
    IN  IF token = <<>> \/ token[1] = ""
        THEN NoUser
        ELSE getUserIdFromToken(token[1])

----------------------------------------------------------------------------
(* handleConnection *)

\* registerSocketForUserId: close the registered socket, register the new one
registerSocketForUserId(sm, u, s) == [sm EXCEPT ![u] = s]

evictExisting(sk, u) ==
    LET existingSocket == USER_ID_SOCKET_MAP[u]
    IN  IF existingSocket # NoSocket
        THEN [sk EXCEPT ![existingSocket] =
                 closeWithError(sk[existingSocket], PolicyViolation,
                                ConnectionReplacedError)]
        ELSE sk

\* a client connects with a token that resolves to user u (NoUser: no or an
\* unknown token); maxS bounds the sockets of the behaviour
Connect(u, maxS) ==
    /\ ~mainAborted
    /\ nSocks < maxS
    /\ LET s == nSocks + 1
           opened == [NoSock EXCEPT !.readyState = "OPEN", !.user = u]
       IN  /\ nSocks' = s
           /\ IF u = NoUser
              THEN /\ socks' = [socks EXCEPT ![s] =
                          closeWithError(opened, PolicyViolation, Unauthorized)]
                   /\ UNCHANGED <<USER_ID_SOCKET_MAP, timers>>
              ELSE /\ socks' = [evictExisting(socks, u) EXCEPT ![s] = opened]
                   /\ USER_ID_SOCKET_MAP' =
                          registerSocketForUserId(USER_ID_SOCKET_MAP, u, s)
                   \* void validateUsageRemaining(clientSocket)
                   /\ timers' = Append(timers, admissionTimer(s))
    /\ UNCHANGED <<USER_ID_QUEUE_MAP, tasks, MEMORY_STORAGE, mainAborted,
                   setSize, enqCount, lastReplied, repliedMs, lateFrame>>
    /\ UNCHANGED <<runnerReturned, shutdownReturned>>
    /\ UNCHANGED unitVars

----------------------------------------------------------------------------
(* validateUsageRemaining: the continuation after usageService.getUsage *)

\* an admission that lets a user with nothing remaining in
admissionRejectsNegative(remainingMs) == remainingMs < 0

\* if (usageData.remainingMs <= 0) return closeWithError(...)
admissionRejects(remainingMs) == remainingMs <= 0

validateUsageRemaining(s) ==
    /\ timerDue(timers, admissionTimer(s))
    /\ timers' = timerRan(timers, admissionTimer(s))
    /\ socks[s].readyState # "NONE"
    /\ socks[s].user # NoUser
    /\ socks[s].admRead = NotRead
    /\ LET sk == socks[s]
           usageData == MEMORY_STORAGE[sk.user]
           read == [sk EXCEPT !.admRead = usageData.remainingMs]
       IN  IF admissionRejects(usageData.remainingMs)
           THEN /\ socks' = [socks EXCEPT ![s] =
                       closeWithError(read, PolicyViolation,
                                      ExceededAllocatedUsageError)]
                /\ UNCHANGED lateFrame
           ELSE IF sendDataAllowed(read)
           THEN \* clientSocket.ready = true; sendData({event: 'ready'})
                /\ socks' = [socks EXCEPT ![s] =
                       [read EXCEPT !.ready = TRUE, !.readySent = TRUE]]
                /\ lateFrame' = (lateFrame \/ closeFrameSeen(read))
           ELSE \* sendData throws 'Socket not open', which is caught
                /\ socks' = [socks EXCEPT ![s] = [read EXCEPT !.ready = TRUE]]
                /\ UNCHANGED lateFrame
    /\ UNCHANGED <<nSocks, USER_ID_SOCKET_MAP, USER_ID_QUEUE_MAP, tasks,
                   MEMORY_STORAGE, mainAborted, setSize, enqCount,
                   lastReplied, repliedMs>>
    /\ UNCHANGED <<runnerReturned, shutdownReturned>>
    /\ UNCHANGED unitVars

----------------------------------------------------------------------------
(* what shutdownFactory's callback does, and who calls it *)

\* a shutdown that leaves the signal as it is
abortDropped(aborted) == aborted

\* abortController.abort(): signal.aborted of the main controller
abort(aborted) == TRUE

\* abortController.abort(): the onAbort callback of every task aborts the
\* task's own controller
abortAll(ts) == {[t EXCEPT !.aborted = TRUE] : t \in ts}

\* wss.clients.forEach that closes only the clients that are ready
closeClientsReady(sk) ==
    [s \in SockIds |->
        IF sk[s].ready THEN closeWithError(sk[s], GoingAway, ShuttingDown)
        ELSE sk[s]]

\* wss.clients.forEach: every OPEN client is closed
closeClients(sk) ==
    [s \in SockIds |-> closeWithError(sk[s], GoingAway, ShuttingDown)]

\* usageService.getUsage rejects in validateUsageRemaining: its catch logs
\* and throws again, and handleConnection has dropped the promise (void), so
\* the rejection is unhandled: the 'unhandledRejection' handler of the
\* process runs the shutdown callback (shutdownAndExit)
validateUsageRemainingRejected(s) ==
    /\ timerDue(timers, admissionTimer(s))
    /\ timers' = timerRan(timers, admissionTimer(s))
    /\ mainAborted' = abort(mainAborted)
    /\ tasks' = abortAll(tasks)
    /\ socks' = closeClients(socks)
    /\ UNCHANGED <<nSocks, USER_ID_SOCKET_MAP, USER_ID_QUEUE_MAP,
                   MEMORY_STORAGE, setSize, enqCount, lastReplied, repliedMs,
                   lateFrame>>
    /\ UNCHANGED <<runnerReturned, shutdownReturned>>
    /\ UNCHANGED unitVars

----------------------------------------------------------------------------
(* clientSocketMessageHandler *)

isReady(sk) == sk.ready

\* USER_ID_QUEUE_MAP[userId] ??= new SoftLock(new Queue())
getOrInitQueue(qm, u) == IF qm[u].present THEN qm[u] ELSE NewQueue

\* the ws library emits 'message' until the peer's close frame has arrived,
\* also after the server has started the close
canReceive(sk) ==
    \/ sk.readyState = "OPEN"
    \/ sk.readyState = "CLOSING" /\ sk.closeReason # PeerReason

\* frames enqueued so far, over all users
RECURSIVE enqueuedFrom(_, _)
enqueuedFrom(cnt, k) ==
    IF k > Cardinality(Users) THEN 0 ELSE cnt[k] + enqueuedFrom(cnt, k + 1)

\* the frame a client that numbers its frames 1, 2, ... sends next on
\* socket s: insertIdIntoBuffer(id, audio), frameLen bytes in all
nextFrame(s, frameLen) ==
    LET userId == socks[s].user
    IN  insertIdIntoBuffer(IF userId \in Users THEN enqCount[userId] + 1 ELSE 0,
                           audio(frameLen - ID_BYTES))

\* a binary frame arrives on socket s; maxF bounds the frames enqueued in
\* the behaviour. No one catches what new QueueEntry(buffer) throws: it
\* leaves the 'message' listener as an uncaught exception, and the
\* 'uncaughtException' handler of the process runs the shutdown callback
\* (shutdownAndExit) in the same turn.
clientSocketMessageHandler(s, buffer, maxF) ==
    /\ socks[s].user # NoUser
    /\ canReceive(socks[s])
    /\ LET sk == socks[s]
           userId == sk.user
           queue == getOrInitQueue(USER_ID_QUEUE_MAP, userId)
       IN  IF ~isReady(sk)
           THEN /\ socks' = [socks EXCEPT ![s] =
                       closeWithError(sk, PolicyViolation, NotReady)]
                /\ UNCHANGED <<USER_ID_QUEUE_MAP, enqCount, tasks,
                               mainAborted>>
           ELSE IF queueEntryThrows(buffer)
           THEN /\ USER_ID_QUEUE_MAP' =
                       [USER_ID_QUEUE_MAP EXCEPT ![userId] = queue]
                /\ mainAborted' = abort(mainAborted)
                /\ tasks' = abortAll(tasks)
                /\ socks' = closeClients(socks)
                /\ UNCHANGED enqCount
           ELSE /\ enqueuedFrom(enqCount, 1) < maxF
                /\ LET queueEntry ==
                           [id |-> getIdFromBuffer(buffer).id,
                            len |-> bufferLength(getIdFromBuffer(buffer).data),
                            from |-> s]
                   IN  USER_ID_QUEUE_MAP' =
                           [USER_ID_QUEUE_MAP EXCEPT ![userId] =
                               [queue EXCEPT !.items = Append(@, queueEntry)]]
                /\ enqCount' = [enqCount EXCEPT ![userId] = @ + 1]
                /\ UNCHANGED <<socks, tasks, mainAborted>>
    /\ UNCHANGED <<nSocks, USER_ID_SOCKET_MAP, MEMORY_STORAGE, setSize,
                   lastReplied, repliedMs, lateFrame, timers>>
    /\ UNCHANGED <<runnerReturned, shutdownReturned>>
    /\ UNCHANGED unitVars

----------------------------------------------------------------------------
(* the peer closes, and the 'close' event *)

\* the peer's close frame arrives (or the connection drops): the ws library
\* answers it and the socket is CLOSING
PeerClose(s) ==
    /\ socks[s].readyState = "OPEN"
    /\ socks' = [socks EXCEPT ![s] =
           [@ EXCEPT !.readyState = "CLOSING", !.closeCode = Normal]]
    /\ UNCHANGED <<nSocks, USER_ID_SOCKET_MAP, USER_ID_QUEUE_MAP, tasks,
                   MEMORY_STORAGE, mainAborted, setSize, enqCount,
                   lastReplied, repliedMs, lateFrame, timers>>
    /\ UNCHANGED <<runnerReturned, shutdownReturned>>
    /\ UNCHANGED unitVars

\* clientSocketCloseHandler: delete USER_ID_SOCKET_MAP[userId] and
\* delete USER_ID_QUEUE_MAP[userId], whatever socket is registered
unregisterSocket(sm, u, s) == [sm EXCEPT ![u] = NoSocket]

deleteQueue(qm, u, s) == [qm EXCEPT ![u] = NoQueue]

\* the 'close' event of socket s: first clientSocketCloseHandler (registered
\* in handleConnection), then unExpectedCloseHandler of each task that runs
\* on s. A task of the user keeps its SoftLock object, which is no longer
\* the one in the map.
CloseEvent(s) ==
    /\ socks[s].readyState = "CLOSING"
    /\ socks' = [socks EXCEPT ![s].readyState = "CLOSED"]
    /\ LET userId == socks[s].user
       IN  IF userId = NoUser
           THEN UNCHANGED <<USER_ID_SOCKET_MAP, USER_ID_QUEUE_MAP, tasks>>
           ELSE /\ USER_ID_SOCKET_MAP' =
                       unregisterSocket(USER_ID_SOCKET_MAP, userId, s)
                /\ USER_ID_QUEUE_MAP' =
                       deleteQueue(USER_ID_QUEUE_MAP, userId, s)
                /\ tasks' =
                       {[t EXCEPT
                           !.lockLive = @ /\ t.user # userId,
                           !.aborted = @ \/ t.sock = s] : t \in tasks}
    /\ UNCHANGED <<nSocks, MEMORY_STORAGE, mainAborted, setSize, enqCount,
                   lastReplied, repliedMs, lateFrame, timers>>
    /\ UNCHANGED <<runnerReturned, shutdownReturned>>
    /\ UNCHANGED unitVars

----------------------------------------------------------------------------
(* shutdownFactory *)

\* abortController.abort() runs the onAbort callback of every task; every
\* OPEN client is closed with (GoingAway, ShuttingDown)
Shutdown ==
    /\ ~mainAborted
    /\ mainAborted' = abort(mainAborted)
    /\ tasks' = abortAll(tasks)
    /\ socks' = closeClients(socks)
    /\ UNCHANGED <<nSocks, USER_ID_SOCKET_MAP, USER_ID_QUEUE_MAP,
                   MEMORY_STORAGE, setSize, enqCount, lastReplied, repliedMs, lateFrame,
                   timers>>
    /\ UNCHANGED <<runnerReturned, shutdownReturned>>
    /\ UNCHANGED unitVars

\* The promise of shutdown() resolves: Promise.all of wss.close(cb), whose
\* callback runs when the last client of wss.clients is closed, and of
\* httpServer.close(cb), whose callback runs when no connection is left
ShutdownReturns ==
    /\ UNCHANGED unitVars
    /\ mainAborted
    /\ ~shutdownReturned
    /\ \A s \in SockIds : socks[s].readyState \in {"NONE", "CLOSED"}
    /\ shutdownReturned' = TRUE
    /\ UNCHANGED <<socks, nSocks, USER_ID_SOCKET_MAP, USER_ID_QUEUE_MAP,
                   tasks, MEMORY_STORAGE, mainAborted, setSize, enqCount,
                   lastReplied, repliedMs, lateFrame, timers, runnerReturned>>

\* queueRunner: if (mainAbortSignal.aborted) return, at the top of its loop
queueRunnerReturns ==
    /\ UNCHANGED unitVars
    /\ mainAborted
    /\ ~runnerReturned
    /\ runnerReturned' = TRUE
    /\ UNCHANGED <<socks, nSocks, USER_ID_SOCKET_MAP, USER_ID_QUEUE_MAP,
                   tasks, MEMORY_STORAGE, mainAborted, setSize, enqCount,
                   lastReplied, repliedMs, lateFrame, timers,
                   shutdownReturned>>

----------------------------------------------------------------------------
(* queueRunner / processQueue: one scan of the dispatcher *)

\* the keys of USER_ID_QUEUE_MAP, in the order Object.keys lists the
\* integer-like keys '1', '2': ascending
RECURSIVE keysFrom(_, _)
keysFrom(qm, k) ==
    IF k > Cardinality(Users) THEN <<>>
    ELSE IF k \in Users /\ qm[k].present
         THEN <<k>> \o keysFrom(qm, k + 1)
         ELSE keysFrom(qm, k + 1)

\* processTranscribe up to its first await: the socket registered for the
\* user now is the task's clientSocket; timeout() calls transcribeForUser,
\* which starts usageService.getUsage.
\* aborted: the signal of the AbortController processTranscribe creates,
\* which the shutdown signal and the socket's 'close' event abort.
\* timedOut: the deadline of timeout() fired before transcribeForUser
\* returned, and processTranscribe has ended.
\* signalAborted: the abortSignal transcribeForUser gets. timeout(60_000, fn)
\* is called without opt, so it is the signal of the AbortController that
\* timeout() creates itself, and only timeout's own deadline aborts it.
newTask(userId, nextItem) ==
    [user |-> userId, id |-> nextItem.id, len |-> nextItem.len,
     from |-> nextItem.from, sock |-> USER_ID_SOCKET_MAP[userId],
     phase |-> "getUsage", remainingMs |-> NotRead, lockLive |-> TRUE,
     aborted |-> FALSE, signalAborted |-> FALSE, timedOut |-> FALSE]

\* set.add(...); if (set.size === maxConcurrent) { await Promise.race([
\* rejectOnAbort(mainAbortSignal), Promise.any(set)]); set.clear() }.
\* rejectOnAbort returns the object {promise, cancel}, which is no thenable:
\* the race is settled by it at once. The set only loses members in clear():
\* set.delete(transcribePromise) names the promise that was never added.
setAfterAdd(n, maxConcurrent) ==
    IF n + 1 = maxConcurrent THEN 0 ELSE n + 1

\* SoftLock.set that takes the flag whatever it was
SoftLock_setAlways(_locked, locked) == <<locked, TRUE>>

\* SoftLock.set: the flag after the call, and what the call returns
SoftLock_set(_locked, locked) ==
    IF _locked # locked THEN <<locked, TRUE>> ELSE <<_locked, FALSE>>

\* SoftLock.lock and SoftLock.unlock
SoftLock_lock(_locked) == SoftLock_set(_locked, TRUE)
SoftLock_unlock(_locked) == SoftLock_set(_locked, FALSE)

\* the body of processQueue's loop for the keys left, on the scan's state
\* st = [q: the queue map, t: the tasks, n: set.size, tm: the timers]
RECURSIVE processQueue(_, _)
processQueue(keys, st) ==
    IF keys = <<>> THEN st
    ELSE
      LET userId == Head(keys)
          clientSocket == USER_ID_SOCKET_MAP[userId]
          lock == st.q[userId]
      IN  IF clientSocket = NoSocket THEN processQueue(Tail(keys), st)
          ELSE IF ~lock.present THEN processQueue(Tail(keys), st)
          ELSE IF lock.locked THEN processQueue(Tail(keys), st)
          ELSE IF ~SoftLock_lock(lock.locked)[2]
          THEN processQueue(Tail(keys), st)
          ELSE IF ~isOpen(socks[clientSocket])
          THEN processQueue(Tail(keys),
                            [st EXCEPT !.q = [@ EXCEPT ![userId] = NoQueue]])
          ELSE IF lock.items = <<>>
          THEN processQueue(Tail(keys),
                 [st EXCEPT !.q = [@ EXCEPT ![userId].locked =
                     SoftLock_unlock(SoftLock_lock(lock.locked)[1])[1]]])
          ELSE processQueue(Tail(keys),
                 [q |-> [st.q EXCEPT ![userId] =
                            [lock EXCEPT !.locked = SoftLock_lock(@)[1],
                                         !.items = Tail(@)]],
                  t |-> st.t \cup {newTask(userId, Head(lock.items))},
                  n |-> setAfterAdd(st.n, MAX_CONCURRENT),
                  tm |-> Append(st.tm,
                                taskTimer(userId, Head(lock.items).id))])

\* one iteration of queueRunner's while loop after its delay(0)
queueRunner ==
    /\ ~mainAborted
    /\ LET st == processQueue(keysFrom(USER_ID_QUEUE_MAP, 1),
                              [q |-> USER_ID_QUEUE_MAP, t |-> tasks,
                               n |-> setSize, tm |-> timers])
       IN  /\ USER_ID_QUEUE_MAP' = st.q
           /\ tasks' = st.t
           /\ setSize' = st.n
           /\ timers' = st.tm
    /\ UNCHANGED <<socks, nSocks, USER_ID_SOCKET_MAP, MEMORY_STORAGE,
                   mainAborted, enqCount, lastReplied, repliedMs, lateFrame>>
    /\ UNCHANGED <<runnerReturned, shutdownReturned>>
    /\ UNCHANGED unitVars

----------------------------------------------------------------------------
(* processTranscribe / transcribeForUser: the steps of one task *)

\* lock.unlock() in the finally of processQueue, on the SoftLock object the
\* scan took: the map holds it only while nothing deleted the user's entry
unlock(qm, t) ==
    IF t.lockLive
    THEN [qm EXCEPT ![t.user].locked = SoftLock_unlock(@)[1]]
    ELSE qm

\* the catch of processTranscribe, which returns when the socket is not
\* open, and handleTranscribeError, by the class of the error
handleTranscribeError(err, sk) ==
    IF ~isOpen(sk) THEN sk
    ELSE IF err = "AbortedError"
    THEN closeWithError(sk, GoingAway, AbortedError)
    ELSE IF err = "TimeoutError"
    THEN closeWithError(sk, Timeout, TimeoutError)
    ELSE IF err = "ExceededAllocatedUsageError"
    THEN closeWithError(sk, PolicyViolation, ExceededAllocatedUsageError)
    ELSE IF err = "InvalidData"
    THEN closeWithError(sk, WsInvalidData, InvalidData)
    ELSE IF err = "ConnectionClosedUnexpectedlyError"
    THEN sk
    ELSE closeWithError(sk, UnexpectedError, ServerError)

\* a budget check that wants something left over
hasBudgetStrict(remainingMs, len) == remainingMs > estimateUsageMs(len)

\* usageService.updateUsage without Math.max
updateUsageUnclamped(usage, usedMs) ==
    [totalUsedMs |-> usage.totalUsedMs + usedMs,
     remainingMs |-> usage.remainingMs - usedMs]

\* the budget check of transcribeForUser
hasBudget(remainingMs, len) ==
    ~(remainingMs <= 0) /\ ~(remainingMs < estimateUsageMs(len))

\* usageService.getUsage returns to transcribeForUser. Without budget the
\* task ends in the catch of processTranscribe. With budget fakeTranscribe
\* runs: its Promise.race([transcribeProcess, rejectOnAbort(abortSignal)])
\* is settled at once by the object rejectOnAbort returns, so the task goes
\* on to usageService.updateUsage in the same turn.
TaskGetUsage(t) ==
    /\ t \in tasks
    /\ t.phase = "getUsage"
    /\ timerDue(timers, taskTimer(t.user, t.id))
    /\ LET remainingMs == _getUsage(MEMORY_STORAGE, t.user).remainingMs
       IN  IF hasBudget(remainingMs, t.len)
           THEN /\ tasks' = (tasks \ {t}) \cup
                       {[t EXCEPT !.phase = "updateUsage",
                                  !.remainingMs = remainingMs]}
                \* delay(50) of usageService.updateUsage
                /\ timers' = Append(timerRan(timers, taskTimer(t.user, t.id)),
                                    taskTimer(t.user, t.id))
                /\ UNCHANGED <<socks, USER_ID_QUEUE_MAP>>
           ELSE /\ tasks' = tasks \ {t}
                /\ timers' = timerRan(timers, taskTimer(t.user, t.id))
                /\ socks' = [socks EXCEPT ![t.sock] =
                       handleTranscribeError("ExceededAllocatedUsageError", @)]
                /\ USER_ID_QUEUE_MAP' = unlock(USER_ID_QUEUE_MAP, t)
    /\ UNCHANGED <<nSocks, USER_ID_SOCKET_MAP, MEMORY_STORAGE, mainAborted,
                   setSize, enqCount, lastReplied, repliedMs, lateFrame>>
    /\ UNCHANGED <<runnerReturned, shutdownReturned>>
    /\ UNCHANGED unitVars

\* usageService.updateUsage
updateUsage(usage, usedMs) ==
    [totalUsedMs |-> usage.totalUsedMs + usedMs,
     remainingMs |-> Max(usage.remainingMs - usedMs, 0)]

\* the delay of usageService.updateUsage is over: the store is updated,
\* transcribeForUser returns and processTranscribe sends the reply, unless
\* the socket is not open any more
TaskUpdateUsage(t) ==
    /\ t \in tasks
    /\ t.phase = "updateUsage"
    /\ timerDue(timers, taskTimer(t.user, t.id))
    /\ timers' = timerRan(timers, taskTimer(t.user, t.id))
    /\ MEMORY_STORAGE' = [MEMORY_STORAGE EXCEPT ![t.user] =
           updateUsage(_getUsage(MEMORY_STORAGE, t.user),
                       estimateUsageMs(t.len))]
    /\ IF t.timedOut
       THEN \* processTranscribe has returned: nobody awaits the result
            /\ tasks' = tasks \ {t}
            /\ UNCHANGED <<USER_ID_QUEUE_MAP, lastReplied, repliedMs,
                           lateFrame>>
       ELSE IF sendDataAllowed(socks[t.sock])
       THEN /\ tasks' = (tasks \ {t}) \cup {[t EXCEPT !.phase = "sendData"]}
            /\ lastReplied' = [lastReplied EXCEPT ![t.user] = t.id]
            /\ repliedMs' = [repliedMs EXCEPT ![t.user] =
                                 @ + estimateUsageMs(t.len)]
            /\ lateFrame' = (lateFrame \/ closeFrameSeen(socks[t.sock]))
            /\ UNCHANGED USER_ID_QUEUE_MAP
       ELSE /\ tasks' = tasks \ {t}
            /\ USER_ID_QUEUE_MAP' = unlock(USER_ID_QUEUE_MAP, t)
            /\ UNCHANGED <<lastReplied, repliedMs, lateFrame>>
    /\ UNCHANGED <<socks, nSocks, USER_ID_SOCKET_MAP, mainAborted, setSize,
                   enqCount>>
    /\ UNCHANGED <<runnerReturned, shutdownReturned>>
    /\ UNCHANGED unitVars

\* the catch handler on rejectOnAbortObj.promise in timeout() that tells
\* no deadline from an abort
timeoutRejectionAborted(wasTimeout) == "AbortedError"

\* the catch handler on rejectOnAbortObj.promise in timeout(): the error
\* the race is rejected with when timeout's signal is aborted
timeoutRejection(wasTimeout) ==
    IF wasTimeout THEN "TimeoutError" ELSE "AbortedError"

\* The deadline of timeout(60_000, ...) fires before transcribeForUser has
\* returned: wasTimeout = true, timeout's controller is aborted, the race
\* is rejected, and processTranscribe ends in its catch; the finally of
\* processQueue unlocks. The 60 s timer was set before the task's delay(50)
\* of getUsage and is due after it, so it can fire first only while
\* transcribeForUser waits for updateUsage, whose delay(50) was set when
\* getUsage returned (an event loop that stood still that long).
\* transcribeForUser itself goes on.
TaskDeadline(t) ==
    /\ UNCHANGED <<runnerReturned, shutdownReturned>>
    /\ UNCHANGED unitVars
    /\ t \in tasks
    /\ t.phase = "updateUsage"
    /\ ~t.timedOut
    /\ tasks' = (tasks \ {t}) \cup
           {[t EXCEPT !.timedOut = TRUE, !.signalAborted = TRUE]}
    /\ socks' = [socks EXCEPT ![t.sock] =
           handleTranscribeError(timeoutRejection(TRUE), @)]
    /\ USER_ID_QUEUE_MAP' = unlock(USER_ID_QUEUE_MAP, t)
    /\ UNCHANGED <<nSocks, USER_ID_SOCKET_MAP, MEMORY_STORAGE, mainAborted,
                   setSize, enqCount, lastReplied, repliedMs, lateFrame,
                   timers>>

\* handleTranscribeRequest: usageRemainingMs of the reply
usageRemainingMs(t) == t.remainingMs - estimateUsageMs(t.len)

\* the test of processTranscribe on the reply it sent, a variant that lets
\* a reply of exactly 0 pass
replyExhaustedNegative(remainingMs) == remainingMs < 0

\* if (result.usageRemainingMs <= 0)
replyExhausted(remainingMs) == remainingMs <= 0

\* the send callback: processTranscribe closes the socket when the reply
\* said that nothing remains, and returns
TaskSendData(t) ==
    /\ t \in tasks
    /\ t.phase = "sendData"
    /\ tasks' = tasks \ {t}
    /\ socks' = IF replyExhausted(usageRemainingMs(t))
                THEN [socks EXCEPT ![t.sock] =
                         closeWithError(@, PolicyViolation,
                                        ExceededAllocatedUsageError)]
                ELSE socks
    /\ USER_ID_QUEUE_MAP' = unlock(USER_ID_QUEUE_MAP, t)
    /\ UNCHANGED <<nSocks, USER_ID_SOCKET_MAP, MEMORY_STORAGE, mainAborted,
                   setSize, enqCount, lastReplied, repliedMs, lateFrame, timers>>
    /\ UNCHANGED <<runnerReturned, shutdownReturned>>
    /\ UNCHANGED unitVars

----------------------------------------------------------------------------
\* the steps of the server that no client decides
ServerStep ==
    \/ \E s \in SockIds : validateUsageRemaining(s)
    \/ \E s \in SockIds : CloseEvent(s)
    \/ queueRunner
    \/ \E t \in tasks : TaskGetUsage(t)
    \/ \E t \in tasks : TaskUpdateUsage(t)
    \/ \E t \in tasks : TaskSendData(t)

\* both users and clients without a token, and a shutdown
Next ==
    \/ \E u \in Users \cup {NoUser} : Connect(u, MaxSockets)
    \/ \E s \in SockIds, l \in FrameLens :
           clientSocketMessageHandler(s, nextFrame(s, l), MaxFrames)
    \/ \E s \in SockIds : PeerClose(s)
    \/ Shutdown
    \/ ShutdownReturns
    \/ queueRunnerReturns
    \/ ServerStep

Spec == Init /\ [][Next]_vars

\* one user who connects again and again
NextOne ==
    \/ Connect(1, OneSockets)
    \/ \E s \in SockIds, l \in FrameLens :
           clientSocketMessageHandler(s, nextFrame(s, l), MaxFrames)
    \/ \E s \in SockIds : PeerClose(s)
    \/ ServerStep

SpecOne == Init /\ [][NextOne]_vars

\* the frames that new QueueEntry does not take: one of less than 4 bytes,
\* and one of the 4 bytes of an id and no payload
InvalidFrames == {audio(ID_BYTES - 1), insertIdIntoBuffer(1, audio(0))}

\* clients with any Authorization header, frames that are invalid, and a
\* usage store that can fail at admission
NextErr ==
    \/ \E auth \in Headers : Connect(authenticateClient(auth), MaxSockets)
    \/ \E s \in SockIds, l \in FrameLens :
           clientSocketMessageHandler(s, nextFrame(s, l), MaxFrames)
    \/ \E s \in SockIds, buffer \in InvalidFrames :
           clientSocketMessageHandler(s, buffer, MaxFrames)
    \/ \E s \in SockIds : PeerClose(s)
    \/ \E s \in SockIds : validateUsageRemainingRejected(s)
    \/ ServerStep

SpecErr == Init /\ [][NextErr]_vars

\* the frames of a client whose audio costs 250, 500 and 750 ms
UsageFrames ==
    {insertIdIntoBuffer(1, audio(1)),
     insertIdIntoBuffer(2, audio(BYTES_PER_WORD + 1)),
     insertIdIntoBuffer(3, audio(3 * BYTES_PER_WORD))}

\* one user who spends the budget with frames of different cost, in any
\* order, over two connections
NextUsage ==
    \/ Connect(1, UsageSockets)
    \/ \E s \in SockIds, buffer \in UsageFrames :
           clientSocketMessageHandler(s, buffer, UsageMaxFrames)
    \/ \E s \in SockIds : PeerClose(s)
    \/ ServerStep

SpecUsage == Init /\ [][NextUsage]_vars

\* sequence ids at the edges of each of the four bytes, up to 2^31 - 1
CodecIds ==
    {0, 1, 255, 256, 65535, 65536, 16777215, 16777216, 2147483647}

\* payloads of one byte, of one word, and one that begins with bytes that
\* are not zero
CodecPayloads ==
    {audio(1), audio(BYTES_PER_WORD),
     [bytes |-> <<1, 2>>, rest |-> BYTES_PER_WORD]}

CodecFrames ==
    {insertIdIntoBuffer(k, p) : k \in CodecIds, p \in CodecPayloads}

\* one session whose client sends frames with any of the ids
NextCodec ==
    \/ Connect(1, CodecSockets)
    \/ \E s \in SockIds, buffer \in CodecFrames :
           clientSocketMessageHandler(s, buffer, CodecMaxFrames)
    \/ \E s \in SockIds : PeerClose(s)
    \/ ServerStep

SpecCodec == Init /\ [][NextCodec]_vars

\* one user, and an event loop that can stand still until the deadline of
\* a task is due
NextTimeout ==
    \/ Connect(1, MaxSockets)
    \/ \E s \in SockIds, l \in FrameLens :
           clientSocketMessageHandler(s, nextFrame(s, l), MaxFrames)
    \/ \E s \in SockIds : PeerClose(s)
    \/ \E t \in tasks : TaskDeadline(t)
    \/ ServerStep

SpecTimeout == Init /\ [][NextTimeout]_vars

\* both users with one session each, and frames enough for one user to
\* have an item queued behind its task while the other user sends one
NextLock ==
    \/ \E u \in Users : Connect(u, LockSockets)
    \/ \E s \in SockIds, l \in FrameLens :
           clientSocketMessageHandler(s, nextFrame(s, l), LockMaxFrames)
    \/ ServerStep

SpecLock == Init /\ [][NextLock]_vars

\* timeout(ms, fn, opt) on its own: every fn, controller and option, and the
\* events of one call in every order
InitTimeoutFn ==
    /\ timeoutUnit \in TimeoutArgs
    /\ queueUnit = NewQueues
    /\ abortUnit = NoAbortHelpers
    /\ socks = [s \in SockIds |-> NoSock]
    /\ nSocks = 0
    /\ USER_ID_SOCKET_MAP = [u \in Users |-> NoSocket]
    /\ USER_ID_QUEUE_MAP = [u \in Users |-> NoQueue]
    /\ tasks = {}
    /\ MEMORY_STORAGE = [u \in Users |-> createUsage(STARTING_USAGE_LIMIT_MS)]
    /\ mainAborted = FALSE
    /\ setSize = 0
    /\ enqCount = [u \in Users |-> 0]
    /\ lastReplied = [u \in Users |-> 0]
    /\ repliedMs = [u \in Users |-> 0]
    /\ lateFrame = FALSE
    /\ timers = <<>>
    /\ runnerReturned = FALSE
    /\ shutdownReturned = FALSE

NextTimeoutFn ==
    \/ TimeoutCall
    \/ DeadlineFires
    \/ CallerAborts
    \/ \E state \in {"fulfilled", "rejected"} : FnSettles(state)

SpecTimeoutFn == InitTimeoutFn /\ [][NextTimeoutFn]_vars

\* the two Queues under the same calls: every order of calls while few
\* items were enqueued, then enqueues up to the capacity of the buffer
NextQueue ==
    \/ QueueEnqueue
    \/ QueueDequeue
    \/ QueuePeek
    \/ QueueClear

SpecQueue == Init /\ [][NextQueue]_vars

\* onAbort and rejectOnAbort on one signal: every argument, and the calls,
\* the cleanup, the cancel and the abort in every order
InitAbort ==
    /\ timeoutUnit = NoTimeoutCall
    /\ queueUnit = NewQueues
    /\ abortUnit \in AbortArgs
    /\ socks = [s \in SockIds |-> NoSock]
    /\ nSocks = 0
    /\ USER_ID_SOCKET_MAP = [u \in Users |-> NoSocket]
    /\ USER_ID_QUEUE_MAP = [u \in Users |-> NoQueue]
    /\ tasks = {}
    /\ MEMORY_STORAGE = [u \in Users |-> createUsage(STARTING_USAGE_LIMIT_MS)]
    /\ mainAborted = FALSE
    /\ setSize = 0
    /\ enqCount = [u \in Users |-> 0]
    /\ lastReplied = [u \in Users |-> 0]
    /\ repliedMs = [u \in Users |-> 0]
    /\ lateFrame = FALSE
    /\ timers = <<>>
    /\ runnerReturned = FALSE
    /\ shutdownReturned = FALSE

NextAbort ==
    \/ OnAbortCall
    \/ OnAbortCleanup
    \/ RejectOnAbortCall
    \/ RejectOnAbortCancel
    \/ SignalAborts

SpecAbort == InitAbort /\ [][NextAbort]_vars

\* One user whose second connection evicts the first, under the scheduling
\* of the Node event loop: a timer that is due fires, a 'close' event that is
\* due is delivered, the dispatcher scans again and again
NextFair ==
    \/ Connect(1, MaxSockets)
    \/ \E s \in SockIds, l \in FrameLens :
           clientSocketMessageHandler(s, nextFrame(s, l), MaxFrames)
    \/ \E s \in SockIds : PeerClose(s)
    \/ ServerStep

SpecFair ==
    /\ Init /\ [][NextFair]_vars
    /\ \A s \in SockIds : WF_vars(validateUsageRemaining(s))
    /\ \A s \in SockIds : WF_vars(CloseEvent(s))
    /\ WF_vars(queueRunner)
    /\ WF_vars(\E t \in tasks : TaskGetUsage(t))
    /\ WF_vars(\E t \in tasks : TaskUpdateUsage(t))
    /\ WF_vars(\E t \in tasks : TaskSendData(t))

\* One client of user 1 that keeps a session Ready and unregistered and
\* starts a task with every further connection. Its first CapSender sockets
\* evict one another, and a close event of an evicted one removes the
\* registration of the last, the sender. Then the client repeats: connect a
\* socket; send a frame on the sender; close the new socket when the task
\* runs on it.

NextCap ==
    \/ /\ nSocks < CapSender \/ USER_ID_SOCKET_MAP[1] = NoSocket
       /\ nSocks >= CapSender => socks[CapSender].ready
       /\ Connect(1, CapSockets + CapSender)
    \/ \E l \in FrameLens :
           /\ nSocks > CapSender
           /\ USER_ID_SOCKET_MAP[1] = nSocks
           /\ enqCount[1] < nSocks - CapSender
           /\ clientSocketMessageHandler(CapSender, nextFrame(CapSender, l),
                                         CapSockets)
    \/ \E s \in SockIds :
           /\ s > CapSender
           /\ \E t \in tasks : t.sock = s
           /\ PeerClose(s)
    \/ \E s \in SockIds : validateUsageRemaining(s)
    \/ \E s \in SockIds : CloseEvent(s)
    \/ queueRunner
    \/ \E t \in tasks : TaskGetUsage(t)
    \/ \E t \in tasks : TaskUpdateUsage(t)
    \/ \E t \in tasks : TaskSendData(t)

SpecCap == Init /\ [][NextCap]_vars

----------------------------------------------------------------------------
(* The claims *)

InFlight(u) == {t \in tasks : t.user = u}

ReadySessions(u) ==
    {s \in SockIds : /\ socks[s].user = u
                     /\ socks[s].readyState = "OPEN"
                     /\ socks[s].ready}

\* C1: at most one session of a user is open and Ready at any moment
C1_SingleReadySession == \A u \in Users : Cardinality(ReadySessions(u)) <= 1

\* C2: the registry entry of a user is removed only by the close event of
\* the session that is registered, never by the close event of another one
C2_CompareAndRemove ==
    [][\A u \in Users :
          (USER_ID_SOCKET_MAP[u] # NoSocket /\ USER_ID_SOCKET_MAP'[u] = NoSocket)
          => /\ socks[USER_ID_SOCKET_MAP[u]].readyState = "CLOSING"
             /\ socks'[USER_ID_SOCKET_MAP[u]].readyState = "CLOSED"]_vars

\* a frame with id i that socket s sent waits in the queue of its user
Queued(s, i) ==
    \E k \in DOMAIN USER_ID_QUEUE_MAP[socks[s].user].items :
        LET queueEntry == USER_ID_QUEUE_MAP[socks[s].user].items[k]
        IN  queueEntry.id = i /\ queueEntry.from = s

\* the reply to the frame with id i was written to socket s
RepliedOn(s, i) ==
    \E t \in tasks : t.phase = "sendData" /\ t.sock = s /\ t.id = i

\* the budget of the user of socket s covers one more frame
BudgetSuffices(s) ==
    \A l \in FrameLens :
        hasBudget(MEMORY_STORAGE[socks[s].user].remainingMs, dataLength(l))

\* session s connected while the session before it, of the same user, was
\* open and Ready, and evicted it
Evicted(s) ==
    /\ socks[s].user \in Users
    /\ socks[s - 1].user = socks[s].user
    /\ socks[s - 1].readySent
    /\ socks[s - 1].closeCode = PolicyViolation
    /\ socks[s - 1].closeReason = ConnectionReplacedError

\* C3: a session B that connected while session A of its user was Ready
\* works: every frame that B has enqueued eventually gets its reply on B,
\* unless B closes or the budget does not suffice
C3_SuccessorFunctional ==
    \A s \in 2 .. MaxSockets, i \in 1 .. MaxFrames :
        [](/\ Evicted(s)
           /\ Queued(s, i)
           => <>(\/ RepliedOn(s, i)
                 \/ ~isOpen(socks[s])
                 \/ ~BudgetSuffices(s)))

\* the Authorization header names a user: Bearer, a blank, a token of
\* AUTH_TOKEN
Resolves(auth) ==
    /\ Len(auth) >= 2
    /\ auth[1] = "Bearer"
    /\ auth[2] \in {"a", "b"}

\* socket s was opened without a user
Unauthenticated(s) == socks[s].readyState # "NONE" /\ socks[s].user = NoUser

\* C11: a connection whose Authorization header is missing or names no user
\* is closed with (1008, Unauthorized), gets no ready frame, is never
\* registered, and its arrival changes no other session, queue, task or timer
C11_Unauthorized ==
    /\ [](/\ \A auth \in Headers :
                ~Resolves(auth) => authenticateClient(auth) = NoUser
          /\ \A s \in SockIds :
                Unauthenticated(s)
                => /\ socks[s].readyState # "OPEN"
                   /\ socks[s].closeCode = PolicyViolation
                   /\ socks[s].closeReason = Unauthorized
                   /\ ~socks[s].ready /\ ~socks[s].readySent
                   /\ \A u \in Users : USER_ID_SOCKET_MAP[u] # s
                   /\ ~timerPending(timers, admissionTimer(s))
                   /\ \A t \in tasks : t.sock # s /\ t.from # s)
    /\ [][(nSocks' # nSocks /\ socks'[nSocks'].user = NoUser)
          => /\ UNCHANGED <<USER_ID_SOCKET_MAP, USER_ID_QUEUE_MAP, tasks,
                            MEMORY_STORAGE, timers, mainAborted>>
             /\ \A s \in SockIds \ {nSocks'} : socks'[s] = socks[s]]_vars

\* C11 witness: a connection without a user arrived while a session of a
\* user was open and Ready, and that session still is
C11_Witness ==
    \E s \in SockIds, r \in SockIds :
        /\ Unauthenticated(s)
        /\ r < s
        /\ r \in ReadySessions(socks[r].user)
        /\ USER_ID_SOCKET_MAP[socks[r].user] = r

\* C12: a frame that arrives on a session that was never Ready (it got no
\* ready frame) is not enqueued and no transcription runs for it
C12_FrameBeforeReady ==
    /\ \A u \in Users :
          \A k \in DOMAIN USER_ID_QUEUE_MAP[u].items :
              socks[USER_ID_QUEUE_MAP[u].items[k].from].readySent
    /\ \A t \in tasks : socks[t.from].readySent

\* C13: an invalid frame on a Ready session closes that session with (1007,
\* InvalidData); nothing is enqueued, and no other session, no task and not
\* the dispatcher is disturbed
C13_InvalidFrame ==
    [][\A s \in SockIds, buffer \in InvalidFrames :
          (/\ clientSocketMessageHandler(s, buffer, MaxFrames)
           /\ isOpen(socks[s])
           /\ isReady(socks[s]))
          => /\ socks'[s].readyState = "CLOSING"
             /\ socks'[s].closeCode = WsInvalidData
             /\ socks'[s].closeReason = InvalidData
             /\ \A o \in SockIds \ {s} : socks'[o] = socks[o]
             /\ UNCHANGED <<enqCount, tasks, mainAborted>>]_vars

\* C14: when usageService.getUsage fails during the admission of an open
\* session, the session is closed with (1011, ServerError) and is not Ready
C14_AdmissionStoreError ==
    [][\A s \in SockIds :
          (validateUsageRemainingRejected(s) /\ isOpen(socks[s]))
          => /\ socks'[s].readyState = "CLOSING"
             /\ socks'[s].closeCode = UnexpectedError
             /\ socks'[s].closeReason = ServerError
             /\ ~socks'[s].ready]_vars

\* the replies sent whose usageRemainingMs is <= 0 and whose send callback
\* has not run yet
ExhaustedReplies == {t \in tasks : t.phase = "sendData" /\ usageRemainingMs(t) <= 0}

\* C15 as stated: after a reply whose usageRemainingMs is <= 0 the server
\* closes that session with (1008, ExceededAllocatedUsage)
C15_ExhaustedReplyCloses ==
    [][\A t \in ExhaustedReplies :
          TaskSendData(t)
          => /\ socks'[t.sock].closeCode = PolicyViolation
             /\ socks'[t.sock].closeReason = ExceededAllocatedUsageError]_vars

\* C15, amended: after a reply whose usageRemainingMs is <= 0 the session
\* does not stay open; the server closes it with (1008,
\* ExceededAllocatedUsage) unless it began to close for another reason
\* between the reply and its send callback, and then it keeps that close.
\* The reply goes out on the open session, before the close. From the reply
\* on the user's remainingMs is 0 and no item starts to be transcribed.
C15_ExhaustedReplyClosesOpen ==
    /\ [][\A t \in ExhaustedReplies :
            TaskSendData(t)
            => /\ ~isOpen(socks'[t.sock])
               /\ isOpen(socks[t.sock])
                  => /\ socks'[t.sock].closeCode = PolicyViolation
                     /\ socks'[t.sock].closeReason = ExceededAllocatedUsageError
               /\ ~isOpen(socks[t.sock]) => socks'[t.sock] = socks[t.sock]]_vars
    /\ [][\A t \in tasks :
            (TaskUpdateUsage(t) /\ usageRemainingMs(t) <= 0)
            => \/ t \notin tasks'
               \/ isOpen(socks[t.sock]) /\ ~closeFrameSeen(socks[t.sock])]_vars
    /\ \A u \in Users :
          [](((\E t \in ExhaustedReplies : t.user = u)
              => [](MEMORY_STORAGE[u].remainingMs = 0)))
    /\ [][\A t \in tasks :
            (TaskGetUsage(t) /\ MEMORY_STORAGE[t.user].remainingMs = 0)
            => t \notin tasks' /\ UNCHANGED MEMORY_STORAGE]_vars
    /\ \A s \in SockIds :
          (\E t \in ExhaustedReplies : t.sock = s) ~> ~isOpen(socks[s])

\* the second reply of a session used up the budget, and the send callback
\* closed the session
C15_Witness ==
    /\ nSocks = 1
    /\ tasks = {}
    /\ repliedMs[1] = STARTING_USAGE_LIMIT_MS
    /\ socks[1].closeCode = PolicyViolation
    /\ socks[1].closeReason = ExceededAllocatedUsageError

\* the task that carries on item t after a step
Continues(t, phase) ==
    {n \in tasks' : n.user = t.user /\ n.id = t.id /\ n.from = t.from
                    /\ n.phase = phase}

\* C16: when a task reads the user's usage, its frame is transcribed exactly
\* when the frame's cost is <= remainingMs; otherwise the task ends with
\* ExceededAllocatedUsage (an open session is closed with 1008 and code 0)
\* before the transcriber runs and the usage record stays as it is; a frame
\* whose cost equals remainingMs is transcribed and leaves remainingMs 0
C16_PerPacketBudget ==
    /\ [][\A t \in tasks :
            TaskGetUsage(t)
            => LET remainingMs == MEMORY_STORAGE[t.user].remainingMs
                   cost == fakeSpeechWordCount(t.len) * MS_PER_WORD
               IN  /\ UNCHANGED MEMORY_STORAGE
                   /\ IF cost <= remainingMs
                      THEN /\ Continues(t, "updateUsage") # {}
                           /\ \A n \in Continues(t, "updateUsage") :
                                  n.remainingMs = remainingMs
                           /\ UNCHANGED socks
                      ELSE /\ Continues(t, "updateUsage") = {}
                           /\ t \notin tasks'
                           /\ isOpen(socks[t.sock])
                              => /\ socks'[t.sock].readyState = "CLOSING"
                                 /\ socks'[t.sock].closeCode = PolicyViolation
                                 /\ socks'[t.sock].closeReason =
                                        ExceededAllocatedUsageError]_vars
    /\ [][\A t \in tasks :
            (/\ TaskUpdateUsage(t)
             /\ fakeSpeechWordCount(t.len) * MS_PER_WORD = t.remainingMs)
            => MEMORY_STORAGE'[t.user].remainingMs = 0]_vars

\* after a frame of 750 ms a frame of 250 ms, the whole of what was left,
\* has been transcribed and charged
C16_Witness ==
    /\ MEMORY_STORAGE[1].remainingMs = 0
    /\ MEMORY_STORAGE[1].totalUsedMs = STARTING_USAGE_LIMIT_MS
    /\ \E t \in tasks :
          /\ t.phase = "sendData"
          /\ t.remainingMs = MS_PER_WORD
          /\ t.len = 1

\* C17: the reply of a completed transcription says usageRemainingMs =
\* max(0, priorRemaining - usedMs), where priorRemaining is the store's
\* remainingMs just before the update that charges usedMs
C17_ReplyMatchesStore ==
    [][\A t \in tasks :
          (TaskUpdateUsage(t) /\ Continues(t, "sendData") # {})
          => /\ MEMORY_STORAGE'[t.user].totalUsedMs =
                    MEMORY_STORAGE[t.user].totalUsedMs
                    + fakeSpeechWordCount(t.len) * MS_PER_WORD
             /\ usageRemainingMs(t) =
                    Max(MEMORY_STORAGE[t.user].remainingMs
                        - fakeSpeechWordCount(t.len) * MS_PER_WORD, 0)]_vars

\* C18: when no task is in flight, a user's totalUsedMs is the sum of the
\* usageUsedMs of the replies sent to the user, and remainingMs is
\* max(0, initial - that sum)
C18_UsageLedger ==
    tasks = {}
    => \A u \in Users :
          /\ _getUsage(MEMORY_STORAGE, u).totalUsedMs = repliedMs[u]
          /\ _getUsage(MEMORY_STORAGE, u).remainingMs =
                 Max(STARTING_USAGE_LIMIT_MS - repliedMs[u], 0)

\* users the store holds no record of
UnknownUsers == {0, 3}

\* C20: remainingMs is never negative and totalUsedMs never decreases; the
\* store changes only by an updateUsage, which adds usedMs to the user's
\* totalUsedMs, sets remainingMs to max(0, remainingMs - usedMs) and leaves
\* the other users' records alone; a user without a record reads as {0, 0}
C20_UsageStore ==
    /\ [](\A u \in Users : MEMORY_STORAGE[u].remainingMs >= 0)
    /\ [](\A u \in UnknownUsers :
            /\ _getUsage(MEMORY_STORAGE, u).remainingMs = 0
            /\ _getUsage(MEMORY_STORAGE, u).totalUsedMs = 0)
    /\ [][\A u \in Users :
            MEMORY_STORAGE'[u].totalUsedMs >= MEMORY_STORAGE[u].totalUsedMs]_vars
    /\ [][MEMORY_STORAGE' # MEMORY_STORAGE
          => \E t \in tasks : TaskUpdateUsage(t)]_vars
    /\ [][\A t \in tasks :
            TaskUpdateUsage(t)
            => LET usedMs == fakeSpeechWordCount(t.len) * MS_PER_WORD
                   old == MEMORY_STORAGE[t.user]
               IN  /\ MEMORY_STORAGE'[t.user].totalUsedMs =
                          old.totalUsedMs + usedMs
                   /\ MEMORY_STORAGE'[t.user].remainingMs =
                          (IF old.remainingMs - usedMs > 0
                           THEN old.remainingMs - usedMs ELSE 0)
                   /\ DOMAIN MEMORY_STORAGE' = DOMAIN MEMORY_STORAGE
                   /\ \A o \in Users \ {t.user} :
                          MEMORY_STORAGE'[o] = MEMORY_STORAGE[o]]_vars

\* two tasks of the user were charged more than the budget, and
\* remainingMs stopped at 0
C20_Witness ==
    /\ MEMORY_STORAGE[1].totalUsedMs > STARTING_USAGE_LIMIT_MS
    /\ MEMORY_STORAGE[1].remainingMs = 0

\* the last entry of the user's queue
LastQueued(qm, u) == qm[u].items[Len(qm[u].items)]

NoNewTask ==
    \A t \in tasks' :
        \E o \in tasks : o.user = t.user /\ o.id = t.id /\ o.from = t.from

\* C21: a shutdown fires the signal, the signal stays fired, and once it
\* has fired no transcription task is started
C21_NoTaskAfterShutdown ==
    /\ [][Shutdown => mainAborted']_vars
    /\ [][mainAborted => mainAborted' /\ NoNewTask]_vars

\* the signal has fired while the dispatcher could have started a task: an
\* item is queued for a user whose queue is not locked
C21_Witness ==
    /\ mainAborted
    /\ \E u \in Users :
          /\ USER_ID_QUEUE_MAP[u].items # <<>>
          /\ ~USER_ID_QUEUE_MAP[u].locked
          /\ USER_ID_SOCKET_MAP[u] # NoSocket

\* C22: the dispatcher loop returns and shutdown() completes only when no
\* task is in flight, and the usage store does not change afterwards
C22_ShutdownDrains ==
    /\ [](runnerReturned => tasks = {})
    /\ [](shutdownReturned => tasks = {})
    /\ [][shutdownReturned => UNCHANGED MEMORY_STORAGE]_vars

UserState(u, sk, sm, qm, ts, st, lr, rm) ==
    [sessions |-> [s \in SockIds |-> IF sk[s].user = u THEN sk[s] ELSE NoSock],
     registered |-> sm[u],
     queue |-> qm[u],
     tasks |-> {t \in ts : t.user = u},
     usage |-> st[u],
     lastReplied |-> lr[u],
     repliedMs |-> rm[u]]

\* a step taken with the token of user u, or taken by the server for a
\* session or a task of user u
StepOf(u) ==
    \/ Connect(u, MaxSockets)
    \/ \E s \in SockIds :
          /\ socks[s].user = u
          /\ \/ \E l \in FrameLens :
                   clientSocketMessageHandler(s, nextFrame(s, l), MaxFrames)
             \/ \E buffer \in InvalidFrames :
                   clientSocketMessageHandler(s, buffer, MaxFrames)
             \/ PeerClose(s)
             \/ validateUsageRemaining(s)
             \/ CloseEvent(s)
    \/ \E t \in tasks :
          /\ t.user = u
          /\ TaskGetUsage(t) \/ TaskUpdateUsage(t) \/ TaskSendData(t)

\* C24: a step of one user leaves what the server holds for every other
\* user unchanged: sessions, registration, queue, tasks, usage record and
\* replies
C24_CrossUserIsolation ==
    [][\A u \in Users :
          StepOf(u)
          => \A o \in Users \ {u} :
                UserState(o, socks', USER_ID_SOCKET_MAP', USER_ID_QUEUE_MAP',
                          tasks', MEMORY_STORAGE', lastReplied', repliedMs')
                = UserState(o, socks, USER_ID_SOCKET_MAP, USER_ID_QUEUE_MAP,
                            tasks, MEMORY_STORAGE, lastReplied, repliedMs)]_vars

\* C25: when the deadline of a task fires before the task has completed
\* and its session is open, the session is closed with (3008, TimeoutError
\* code 1); no reply is sent for the item, then or later
C25_TaskTimeout ==
    /\ [][\A t \in tasks :
            TaskDeadline(t)
            => /\ isOpen(socks[t.sock])
                  => /\ socks'[t.sock].readyState = "CLOSING"
                     /\ socks'[t.sock].closeCode = Timeout
                     /\ socks'[t.sock].closeReason = TimeoutError
               /\ ~isOpen(socks[t.sock]) => socks'[t.sock] = socks[t.sock]
               /\ UNCHANGED <<lastReplied, repliedMs>>]_vars
    /\ [](\A t \in tasks : t.timedOut => t.phase # "sendData")
    /\ [][\A t \in tasks :
            (t.timedOut /\ TaskUpdateUsage(t))
            => /\ Continues(t, "sendData") = {}
               /\ UNCHANGED <<socks, lastReplied, repliedMs>>]_vars

\* the deadline of a task fired on an open session, which is closing with
\* (3008, TimeoutError) while the task's updateUsage is still to come
C25_Witness ==
    \E t \in tasks :
        /\ t.timedOut
        /\ socks[t.sock].closeCode = Timeout
        /\ socks[t.sock].closeReason = TimeoutError

\* the task of the frame with id i that socket s sent has been started
Started(s, i) == \E t \in tasks : t.from = s /\ t.id = i

\* C26: every item enqueued on a session eventually has its task started,
\* unless the session does not stay open
C26_DispatchLiveness ==
    \A s \in 1 .. MaxSockets, i \in 1 .. MaxFrames :
        []((socks[s].user \in Users /\ Queued(s, i))
           => <>(Started(s, i) \/ ~isOpen(socks[s])))

\* C4: at most one transcription task is in flight for a user
C4_PerUserMutex == \A u \in Users : Cardinality(InFlight(u)) <= 1

\* C5: the replies a user gets carry their ids in the order of enqueueing:
\* when a reply is sent, its id is above the id of the reply before it, every
\* earlier frame of the user has had its reply or was dropped, and the frames
\* still queued are later ones
C5_RepliesInOrder ==
    [][\A u \in Users :
          lastReplied'[u] # lastReplied[u]
          => /\ lastReplied'[u] > lastReplied[u]
             /\ \A o \in tasks' :
                    (o.user = u /\ o.id < lastReplied'[u])
                    => o.phase = "sendData"
             /\ \A k \in DOMAIN USER_ID_QUEUE_MAP'[u].items :
                    USER_ID_QUEUE_MAP'[u].items[k].id > lastReplied'[u]]_vars

\* C5 witness: two tasks of one user were in flight together, and the reply
\* of the later frame was sent while the send of the earlier reply was still
\* to be acknowledged
C5_Witness ==
    \E t \in tasks : t.phase = "sendData" /\ t.id < lastReplied[t.user]

\* C6: at most MAX_CONCURRENT tasks are in flight over all users
C6_GlobalCap == Cardinality(tasks) <= MAX_CONCURRENT

\* C7: once the session of a task in flight has closed, or the shutdown
\* signal has fired, the signal handed to the Transcriber is aborted
C7_CancellationReachesTranscriber ==
    \A t \in tasks :
        (socks[t.sock].readyState = "CLOSED" \/ mainAborted)
        => t.signalAborted

\* C8: a task whose session closed, or that the shutdown cancelled, before
\* it completed performs no UsageStore.updateUsage
C8_CancelledTaskChargesNothing ==
    [][\A t \in tasks : t.aborted => ~TaskUpdateUsage(t)]_vars

\* C9: no frame is sent on a session after its close frame was sent or
\* received
C9_NoFrameAfterClose == ~lateFrame

\* C9 witness: an admission ended on a session whose close frame was out:
\* the session was marked ready and the ready frame was withheld
C9_Witness ==
    \E s \in SockIds : socks[s].ready /\ ~socks[s].readySent

\* C10 as claimed: ready only after the token resolved and the admission
\* read returned remainingMs > 0; a read of remainingMs <= 0 closes the
\* session with (1008, ExceededAllocatedUsage) and it never gets ready
C10_Admission ==
    \A s \in SockIds :
        /\ (socks[s].ready \/ socks[s].readySent)
           => socks[s].user # NoUser /\ socks[s].admRead > 0
        /\ (socks[s].admRead # NotRead /\ socks[s].admRead <= 0)
           => /\ ~socks[s].ready /\ ~socks[s].readySent
              /\ socks[s].closeCode = PolicyViolation
              /\ socks[s].closeReason = ExceededAllocatedUsageError

\* C10 amended: ready only after the token resolved and the admission read
\* returned remainingMs > 0; a session whose read returns remainingMs <= 0
\* never gets ready, is not open afterwards, and is closed with (1008,
\* ExceededAllocatedUsage) if it was still open when the read returned
C10_AdmissionWhileOpen ==
    /\ [](\A s \in SockIds :
            /\ (socks[s].ready \/ socks[s].readySent)
               => socks[s].user # NoUser /\ socks[s].admRead > 0
            /\ (socks[s].admRead # NotRead /\ socks[s].admRead <= 0)
               => /\ ~socks[s].ready /\ ~socks[s].readySent
                  /\ socks[s].readyState # "OPEN")
    /\ [][\A s \in SockIds :
            (/\ socks[s].admRead = NotRead
             /\ socks'[s].admRead # NotRead
             /\ socks'[s].admRead <= 0
             /\ socks[s].readyState = "OPEN")
            => /\ socks'[s].readyState = "CLOSING"
               /\ socks'[s].closeCode = PolicyViolation
               /\ socks'[s].closeReason = ExceededAllocatedUsageError]_vars

\* C10 witness: a session rejected at admission
C10_Witness ==
    \E s \in SockIds :
        /\ socks[s].admRead = 0
        /\ socks[s].closeCode = PolicyViolation
        /\ socks[s].closeReason = ExceededAllocatedUsageError

\* what the call of timeout() has come to
TimeoutOutcome(c) ==
    IF c.thrown # NoErr THEN <<"throws", c.thrown>>
    ELSE IF c.race = "fulfilled" THEN <<"resolves", NoErr>>
    ELSE IF c.race = "rejected" THEN <<"rejects", c.raceError>>
    ELSE <<"pending", NoErr>>

\* C27: timeout(ms, fn) settles exactly once, and the event that happens
\* first decides how: fn's own outcome when fn settles first, TimeoutError
\* 'timeout' when the deadline fires first, AbortedError 'aborted' when the
\* supplied controller is aborted first or was aborted already, which is
\* thrown as 'already aborted' when allowAlreadyAborted is false.
C27_TimeoutOutcome ==
    /\ [](LET c == timeoutUnit IN
            /\ c.first = "fn" =>
                  TimeoutOutcome(c) =
                    IF c.p1 = "fulfilled" THEN <<"resolves", NoErr>>
                    ELSE <<"rejects", Err("FnError", "fn")>>
            /\ c.first = "deadline" =>
                  TimeoutOutcome(c) =
                    <<"rejects", Err("TimeoutError", "timeout")>>
            /\ c.first = "abort" =>
                  TimeoutOutcome(c) =
                    <<"rejects", Err("AbortedError", "aborted")>>
            /\ c.first = "alreadyAborted" =>
                  TimeoutOutcome(c) =
                    IF c.allow = "false"
                    THEN <<"throws", Err("AbortedError", "already aborted")>>
                    ELSE <<"rejects", Err("AbortedError", "aborted")>>)
    /\ [][TimeoutOutcome(timeoutUnit)[1] # "pending" =>
            TimeoutOutcome(timeoutUnit') = TimeoutOutcome(timeoutUnit)]_vars

\* the oldest item not yet dequeued
Oldest(fifo) == IF fifo = <<>> THEN undefined ELSE Head(fifo)

\* C28: after any sequence of enqueue, dequeue and clear calls both Queues
\* hold the items not yet dequeued in enqueue order (toArray, with isEmpty
\* and size agreeing), dequeue and peek return the oldest of them or
\* undefined, peek removes nothing, no call throws, and the Queue on the
\* ping-pong buffer returns what the Queue on the array returns.
C28_QueueFifo ==
    /\ [](LET q == queueUnit IN
            /\ ~q.threw
            /\ q.ret[1] = q.ret[2]
            /\ Queue_toArray(q.pp) = q.fifo
            /\ ArrayQueue_toArray(q.items) = q.fifo
            /\ Queue_isEmpty(q.pp) = (q.fifo = <<>>)
            /\ ArrayQueue_isEmpty(q.items) = (q.fifo = <<>>)
            /\ Queue_size(q.pp) = Len(q.fifo)
            /\ ArrayQueue_size(q.items) = Len(q.fifo))
    /\ [][QueueDequeue \/ QueuePeek =>
            queueUnit'.ret = <<Oldest(queueUnit.fifo), Oldest(queueUnit.fifo)>>]_vars
    /\ [][QueuePeek =>
            /\ Queue_toArray(queueUnit'.pp) = Queue_toArray(queueUnit.pp)
            /\ queueUnit'.items = queueUnit.items]_vars

\* C29: onAbort invokes its callback exactly once when the signal aborts,
\* at once when the signal is aborted already and that is allowed, and
\* throws AbortedError without invoking it when that is not allowed; the
\* callback is never invoked after the cleanup was called. The promise of
\* rejectOnAbort is rejected with an AbortedError when the signal aborts (the
\* call throws it when the signal is aborted already and that is not
\* allowed), an abort after cancel() does not reject it, and cancel()
\* resolves it when resolveOnCancel is set.
C29_AbortHelpers ==
    /\ [](LET u == abortUnit IN
            /\ u.calls <= 1
            /\ (u.onAbortState = "returned" /\ u.aborted /\ ~u.cleaned)
                  => u.calls = 1
            /\ u.onAbortState = "threw"
                  => u.calls = 0 /\ u.onAbortThrown.class = "AbortedError"
            /\ (u.rejectState = "returned" /\ u.aborted /\ ~u.cancelled)
                  => /\ u.promise = "rejected"
                     /\ u.promiseError.class = "AbortedError"
            /\ u.rejectState = "threw"
                  => u.promise = "none" /\ u.rejectThrown.class = "AbortedError")
    /\ [][OnAbortCall =>
            IF abortUnit.aborted
            THEN IF abortUnit.allowOnAbort
                 THEN abortUnit'.calls = 1 /\ abortUnit'.onAbortState = "returned"
                 ELSE abortUnit'.calls = 0 /\ abortUnit'.onAbortState = "threw"
            ELSE abortUnit'.calls = 0 /\ abortUnit'.onAbortState = "returned"]_vars
    /\ [][abortUnit.cleaned => abortUnit'.calls = abortUnit.calls]_vars
    /\ [][(abortUnit.cancelled /\ abortUnit.promise # "rejected")
             => abortUnit'.promise # "rejected"]_vars
    /\ [][(RejectOnAbortCancel /\ abortUnit.resolveOnCancel
              /\ abortUnit.promise = "pending")
             => abortUnit'.promise = "resolved"]_vars
    /\ [][abortUnit.promise \in {"rejected", "resolved"}
             => /\ abortUnit'.promise = abortUnit.promise
                /\ abortUnit'.promiseError = abortUnit.promiseError]_vars

\* the signal aborted after the cleanup and the cancel: no callback, and the
\* promise resolved by the cancel
C29_Witness ==
    /\ abortUnit.aborted
    /\ abortUnit.cleaned /\ abortUnit.calls = 0
    /\ abortUnit.cancelled /\ abortUnit.promise = "resolved"
    /\ abortUnit.listeners = {}

\* the user's entry is one a scan of the dispatcher would serve
Servable(u) ==
    /\ USER_ID_SOCKET_MAP[u] # NoSocket
    /\ isOpen(socks[USER_ID_SOCKET_MAP[u]])
    /\ USER_ID_QUEUE_MAP[u].present
    /\ USER_ID_QUEUE_MAP[u].items # <<>>

\* C30: the in-flight flag is a compare-and-set that does not block: lock()
\* returns true and sets the flag exactly when it was clear, and returns
\* false and leaves it set otherwise; unlock() returns true and clears it
\* exactly when it was set. A scan of the dispatcher skips a user whose flag
\* is set, leaving the queue and the flag as they are and starting nothing
\* for that user, and in the same scan starts the task of every other user
\* that has an item, an open session and a clear flag.
C30_SoftLock ==
    /\ [](\A l \in BOOLEAN :
            /\ SoftLock_lock(l) = <<TRUE, ~l>>
            /\ SoftLock_unlock(l) = <<FALSE, l>>)
    /\ [][queueRunner =>
            \A u \in Users :
              /\ (USER_ID_QUEUE_MAP[u].present /\ USER_ID_QUEUE_MAP[u].locked)
                   => /\ USER_ID_QUEUE_MAP'[u] = USER_ID_QUEUE_MAP[u]
                      /\ {t \in tasks' : t.user = u} = {t \in tasks : t.user = u}
              /\ (Servable(u) /\ ~USER_ID_QUEUE_MAP[u].locked)
                   => /\ USER_ID_QUEUE_MAP'[u].locked
                      /\ USER_ID_QUEUE_MAP'[u].items
                           = Tail(USER_ID_QUEUE_MAP[u].items)
                      /\ \E t \in tasks' \ tasks :
                           /\ t.user = u
                           /\ t.id = Head(USER_ID_QUEUE_MAP[u].items).id]_vars

\* a user with a task past its first step and an item still queued behind
\* the set flag, while the task of another user has just been started
C30_Witness ==
    \E t1, t2 \in tasks :
        /\ t1.user # t2.user
        /\ t1.phase = "updateUsage" /\ t1.lockLive
        /\ USER_ID_QUEUE_MAP[t1.user].locked
        /\ USER_ID_QUEUE_MAP[t1.user].items # <<>>
        /\ t2.phase = "getUsage"
        /\ USER_ID_QUEUE_MAP[t2.user].locked

\* C31: the items a session enqueued and that were not started when the
\* session closed are discarded: a scan of the dispatcher starts no task for
\* an item that arrived on a session that is not open any more, and no usage
\* is charged for an item whose task was started after its session closed.
C31_ClosedSessionItemsDiscarded ==
    /\ [][queueRunner =>
            \A t \in tasks' :
              (t.phase = "getUsage" /\ t \notin tasks)
                => isOpen(socks[t.from])]_vars
    /\ [][\A t \in tasks :
            (TaskUpdateUsage(t) /\ MEMORY_STORAGE' # MEMORY_STORAGE)
              => t.sock = t.from]_vars

\* C32: the queue of a user has no cap: whatever the number of items that
\* are pending, queue.enqueue(queueEntry) of the message handler does not
\* throw and the item is the last of the pending items afterwards.
C32_NoQueueCap ==
    [][QueueEnqueue =>
         /\ ~queueUnit'.threw
         /\ Queue_toArray(queueUnit'.pp)
              = Append(Queue_toArray(queueUnit.pp), queueUnit'.enqueued)]_vars

\* the header is exactly the word Bearer, one blank, and a token of the map
ExactBearer(auth) ==
    /\ Len(auth) = 2
    /\ auth[1] = "Bearer"
    /\ auth[2] \in DOMAIN AUTH_TOKEN

\* C33: a header of the exact form 'Bearer <token>' with a token of the map
\* resolves to the user of the token (a: user 1, b: user 2); every other
\* header (missing, another scheme, empty or unknown token, further parts
\* after the token) is Unauthorized; the WebSocket upgrade and the HTTP
\* middleware decide alike.
C33_AuthResolver ==
    [][\A auth \in Headers :
         Connect(authenticateClient(auth), MaxSockets) =>
           LET user == IF ExactBearer(auth) THEN AUTH_TOKEN[auth[2]]
                       ELSE NoUser
           IN  /\ socks'[nSocks'].user = user
               /\ authMiddleware(auth) = user
               /\ AUTH_TOKEN["a"] = 1 /\ AUTH_TOKEN["b"] = 2]_vars

\* the cost of a payload of len bytes: 250 ms for every 16000 bytes begun
FrameCost(len) ==
    250 * (CHOOSE n \in 0 .. (len \div 16000 + 1) :
              n * 16000 >= len /\ (n = 0 \/ (n - 1) * 16000 < len))

C35_ReplyOnOwnSession ==
    /\ [](\A t \in tasks : t.sock = t.from)
    /\ [][\A t \in tasks :
            (TaskUpdateUsage(t) /\ lastReplied' # lastReplied)
              => t.sock = t.from]_vars

AdmittedOpen(sk) == sk.ready => sk.readySent

C37_NoReadyAfterClose ==
    /\ [](\A s \in SockIds : AdmittedOpen(socks[s]))
    /\ [][\A s \in SockIds :
            (validateUsageRemaining(s) /\ ~sendDataAllowed(socks[s]))
                => ~isReady(socks'[s])]_vars
    /\ [][\A u \in Users :
            enqCount'[u] # enqCount[u]
                => socks[LastQueued(USER_ID_QUEUE_MAP', u).from].readySent]_vars

\* C38: once fn has settled before the deadline, the timer of timeout() is
\* disarmed and timeout() does not abort the controller any more: the
\* deadline never fires after fn settled, and no step of the timer changes
\* signal.aborted of the controller.
FnSettledFirst(c) == c.first = "fn" /\ c.race \in {"fulfilled", "rejected"}

C38_NoAbortAfterSettle ==
    /\ [](FnSettledFirst(timeoutUnit) => timeoutUnit.timer # "set")
    /\ [][(FnSettledFirst(timeoutUnit) /\ DeadlineFires)
            => timeoutUnit'.aborted = timeoutUnit.aborted]_vars

====
